---- MODULE Spec2Model ----
(***************************************************************************)
(* Real-time state synchronisation of the volleyball match application:    *)
(* the broadcast relay (server.ts), the relay side of the sync transport   *)
(* client (services/cloud.ts) and the application state store that sits on *)
(* top of it (App.tsx: sync listeners effect and sync helpers).            *)
(*                                                                         *)
(* A connection is a pair <<k, g>>: the g-th WebSocket created by client   *)
(* k.  Each connection has two FIFO byte streams, modelled as sequences of *)
(* frames.  Timers (setTimeout) fire at any later moment; timers of one    *)
(* client with the same delay fire in the order they were armed.           *)
(***************************************************************************)
EXTENDS Integers, Sequences, FiniteSets, TLC

\* ------------------------------------------------------------------ bounds
NumClients == 2      \* application instances
MaxReconnects == 1   \* connection losses followed by a reconnect, in total
MaxMutations == 1    \* user-initiated mutations (sync helper calls), in total

Clients == 1..NumClients
Gens == 1..(1 + MaxReconnects)
Conn == Clients \X Gens

\* ------------------------------------------------------------- documents
\* A JSON document: null, an array of items, or an object (a match with a
\* scoreA field, as in the scenario of the wire protocol).
Null == [kind |-> "null", items |-> <<>>]
Arr(s) == [kind |-> "array", items |-> s]
Match(scoreA) == [kind |-> "object", items |-> <<scoreA>>]
\* undefined: the value of a key or field that is absent.
Undefined == [kind |-> "undefined", items |-> <<>>]
\* A truthy value that is neither an array nor an object (a number, a string).
Scalar == [kind |-> "scalar", items |-> <<>>]
\* No document: the relay has processed no UPDATE for a path yet.
NoUpdate == [kind |-> "none", items |-> <<>>]

DEFAULT_ADMIN == "admin"

\* The named paths (the relay's seed keys, in insertion order).
PathOrder == <<"users", "liveMatch">>
Paths == {PathOrder[i] : i \in 1..Len(PathOrder)}

\* ----------------------------------------------------------------- frames
UpdateFrame(p, d) == [type |-> "UPDATE", path |-> p, data |-> d]
InitFrame(m) == [type |-> "INIT", data |-> m]
SyncRequest == [type |-> "SYNC_REQUEST"]

\* A message whose text is not JSON, and JSON.parse: it throws SyntaxError
\* on such a text and gives the frame otherwise.
Unparseable == [type |-> "UNPARSEABLE"]
SyntaxError == [type |-> "SyntaxError"]
JSONParse(msg) == IF msg = Unparseable THEN SyntaxError ELSE msg

VARIABLES
    state,          \* relay: path -> last-known document
    sconn,          \* relay: readyState of each connection ("none" before accept)
    toRelay,        \* frames in flight client -> relay, per connection
    toClient,       \* frames in flight relay -> client, per connection
    socket,         \* client: generation of its WebSocket, 0 when null
    readyState,     \* client: readyState of that WebSocket
    listeners,      \* client: paths with a registered callback
    local,          \* client: application state slices
    retryTimers,    \* client: pending 1000 ms publish retries, oldest first
    reconnectTimer, \* client: pending 3000 ms reconnect timers
    nMutations,     \* user-initiated mutations so far
    lastUpd,        \* history: path -> data of the last UPDATE processed
    closedPushes    \* history: documents handed to pushData while disconnected

\* The transport client of one process taken alone (services/cloud.ts with
\* both backends), the datastore it may be configured with, and the inputs of
\* the users callback.
VARIABLES
    db,             \* the datastore handle: TRUE once initCloud succeeded
    sock,           \* readyState of the WebSocket in `socket`, "null" when null
    leaked,         \* sockets replaced in `socket` while connecting or open
    reconnects,     \* pending setTimeout(connectSocket, 3000)
    retries,        \* pending pushData retries, oldest first
    lists,          \* `listeners`: path -> callbacks, in registration order
    subs,           \* subscriptions whose unsubscribe function was not called
    store,          \* datastore: value at orgId/path
    sent,           \* frames sent on the WebSocket in `socket`, oldest first
    reachable,      \* the relay accepts connections and keeps them
    nOps,           \* calls of initCloud, syncData, unsubscribe, pushData so far
    op,             \* history: the last event and its arguments
    calls,          \* history: callback invocations made by the last event
    routed,         \* history: backends that syncData and pushData were routed to
    ignored,        \* history: connections on which an unparseable message arrived
    applied,        \* history: last value given to the users callback, and its effect
    failed          \* history: closes of the relay socket so far (saturates)

tvars == <<db, sock, leaked, reconnects, retries, lists, subs, store, sent,
           reachable, nOps, op, calls, routed, ignored, applied, failed>>

\* The application state store of one client taken alone (the state slices
\* of App.tsx, their remote notifications and their mutation handlers).
VARIABLES
    slices,           \* path -> value of the state slice
    isCloudConnected, \* the connected / not connected signal
    last              \* history: the last notification or mutation, and its effect

storeVars == <<slices, last>>

\* Histories of the relay and its clients.
VARIABLES
    ended,            \* history: a client has ended a broadcast
    restarts          \* restarts of the relay process so far

\* Two application processes on one managed datastore (services/cloud.ts
\* with db set), each with its own module variables.
VARIABLES
    dbOf,             \* process -> `db` is set
    orgIdOf,          \* process -> `orgId`
    refs,             \* process -> the dataRefs of its onValue listeners
    cloud,            \* datastore: address -> value
    seen,             \* process -> path -> the value its callback last received
    tenantOps,        \* calls of initCloud, syncData and pushData so far
    pub               \* history: the last pushData call, or the last initCloud call

tenantVars == <<dbOf, orgIdOf, refs, cloud, seen, tenantOps, pub>>

\* The live match of the scorekeeper console (the liveMatch slice under its
\* match handlers).
VARIABLES
    liveMatch,        \* the LiveMatchState, NoMatch when null
    rallies,          \* calls of handlePoint so far
    lineupOps         \* calls of handleConfirmSub and handleUpdateRotation so far

matchVars == <<liveMatch, rallies, lineupOps>>

nvars == <<tenantVars, matchVars>>

avars == <<storeVars, isCloudConnected, ended, restarts, nvars>>

vars == <<state, sconn, toRelay, toClient, socket, readyState, listeners,
          local, retryTimers, reconnectTimer, nMutations, lastUpd, closedPushes,
          tvars, avars>>

\* Initial values of the module state of services/cloud.ts and of the
\* datastore (a path that was never written reads as null).
InitTransport ==
    /\ db = FALSE
    /\ sock = "null"
    /\ leaked = 0
    /\ reconnects = 0
    /\ retries = <<>>
    /\ lists = [p \in Paths |-> <<>>]
    /\ subs = <<>>
    /\ store = [p \in Paths |-> Null]
    /\ sent = <<>>
    /\ reachable = TRUE
    /\ nOps = 0
    /\ op = [name |-> "none"]
    /\ calls = <<>>
    /\ routed = {}
    /\ ignored = {}
    /\ applied = [name |-> "none"]
    /\ failed = 0

\* The named paths of the application, and the useState initial values of
\* the state slices and of the signal.
SlicePaths == {"users", "teams", "tournaments", "liveMatch"}
InitialSlices == [p \in SlicePaths |->
    IF p = "users" THEN Arr(<<DEFAULT_ADMIN>>)
    ELSE IF p = "liveMatch" THEN Null ELSE Arr(<<>>)]

InitStore ==
    /\ slices = InitialSlices
    /\ isCloudConnected = FALSE
    /\ last = [name |-> "none"]
    /\ ended = FALSE
    /\ restarts = 0

\* Processes, the organization ids they are given, and the addresses
\* `${orgId}/${path}` of the datastore.
Procs == {1, 2}
OrgInputs == {"", "x", "y"}
OrgOf(organizationId) == IF organizationId = "" THEN "default-org" ELSE organizationId
Ref(org, p) == org \o "/" \o p
Addresses == {Ref(OrgOf(o), p) : o \in OrgInputs, p \in Paths}

InitTenants ==
    /\ dbOf = [k \in Procs |-> FALSE]
    /\ orgIdOf = [k \in Procs |-> "default-org"]
    /\ refs = [k \in Procs |-> {}]
    /\ cloud = [a \in Addresses |-> Null]
    /\ seen = [k \in Procs |-> [p \in Paths |-> Undefined]]
    /\ tenantOps = 0
    /\ pub = [by |-> 0]

\* useState<LiveMatchState | null>(null).
NoMatch == [status |-> "null"]

InitMatch ==
    /\ liveMatch = NoMatch
    /\ rallies = 0
    /\ lineupOps = 0

\* The relay's seed state.
SeedState == [p \in Paths |-> IF p = "liveMatch" THEN Null ELSE Arr(<<>>)]

\* useState initial values of the slices.
InitialLocal == [p \in Paths |->
    IF p = "users" THEN Arr(<<DEFAULT_ADMIN>>)
    ELSE IF p = "liveMatch" THEN Null ELSE Arr(<<>>)]

Init ==
    /\ state = SeedState
    /\ sconn = [c \in Conn |-> "none"]
    /\ toRelay = [c \in Conn |-> <<>>]
    /\ toClient = [c \in Conn |-> <<>>]
    /\ socket = [k \in Clients |-> 0]
    /\ readyState = [k \in Clients |-> "NONE"]
    /\ listeners = [k \in Clients |-> {}]
    /\ local = [k \in Clients |-> InitialLocal]
    /\ retryTimers = [k \in Clients |-> <<>>]
    /\ reconnectTimer = [k \in Clients |-> 0]
    /\ nMutations = 0
    /\ lastUpd = [p \in Paths |-> NoUpdate]
    /\ closedPushes = {}
    /\ InitTransport
    /\ InitStore
    /\ InitTenants
    /\ InitMatch

\* The connection behind client k's current socket.
Cur(k) == <<k, socket[k]>>
IsOpen(k) == socket[k] # 0 /\ readyState[k] = "OPEN"

\* Client k has seen its connection close and has no open socket since.
Disconnected(k) ==
    /\ socket[k] # 0
    /\ readyState[k] = "CLOSED" \/ (readyState[k] = "CONNECTING" /\ socket[k] >= 2)

\* The client end of connection c still exists and has not closed.
ClientEnd(c) == socket[c[1]] = c[2] /\ readyState[c[1]] \in {"CONNECTING", "OPEN"}

\* socket.send on the client: the frame is in flight unless the relay end of
\* the connection is gone.
ClientSend(c, stream, f) == IF sconn[c] = "closed" THEN stream ELSE Append(stream, f)

\* ws.send on the relay: the frame is in flight unless the client end of the
\* connection is gone.
RelaySend(c, stream, f) == IF ClientEnd(c) THEN Append(stream, f) ELSE stream

\* The connections that were lost: one end or the other has seen the close.
Created(c) == c[2] <= socket[c[1]]
Lost(c) == Created(c) /\ (sconn[c] = "closed" \/ ~ClientEnd(c))

\* Connection c may fail now: its other end already saw it fail, or the
\* losses of this run are not used up.  Clients being interchangeable, the
\* first client to lose a connection is client 1, the next one client 2, ...
MayLose(c) ==
    \/ Lost(c)
    \/ /\ Cardinality({c2 \in Conn : Lost(c2)}) < MaxReconnects
       /\ IF c[1] = 1 THEN TRUE ELSE \E g \in Gens : Lost(<<c[1] - 1, g>>)

\* The document a user-facing handler builds for path p: every mutation
\* gives a document that was not published before.
Tag == <<"1", "2", "3", "4", "5", "6">>
NewDoc(p) ==
    IF p = "liveMatch" THEN Match(Tag[nMutations + 1])
    ELSE Arr(<<DEFAULT_ADMIN, Tag[nMutations + 1]>>)

\* ------------------------------------------------ application callbacks
\* normalizeArray: a falsy value gives [], an array loses its falsy items,
\* an object gives its values.
NormalizeArray(val) ==
    IF val.kind \in {"null", "undefined"} THEN Arr(<<>>)
    ELSE IF val.kind = "array" THEN Arr(SelectSeq(val.items, LAMBDA i : i # ""))
    ELSE IF val.kind = "object" THEN Arr(val.items)
    ELSE Arr(<<>>)

\* The users callback without the fallback to the default admin list.
CbLocal_NoFallback(p, val) ==
    IF p = "liveMatch" THEN val ELSE NormalizeArray(val)

\* The slice value the callback registered for path p sets on receiving val.
CbLocal(p, val) ==
    IF p = "users"
    THEN IF Len(NormalizeArray(val).items) > 0
         THEN NormalizeArray(val)
         ELSE Arr(<<DEFAULT_ADMIN>>)
    ELSE IF p = "liveMatch" THEN val
    ELSE NormalizeArray(val)

\* The callbacks publishing back every value they receive.
CbPushes_Always(p, val) == <<[path |-> p, data |-> CbLocal(p, val)]>>

\* The pushData calls the callback of path p makes on receiving val.
CbPushes(p, val) ==
    IF p = "users" /\ Len(NormalizeArray(val).items) = 0
    THEN <<[path |-> "users", data |-> Arr(<<DEFAULT_ADMIN>>)]>>
    ELSE <<>>

\* ------------------------------------------------------ transport client
\* pushData on the relay backend, as a function of the client's outgoing
\* stream and retry timers (st) at the moment of the call.
PushData(k, p, d, st) ==
    IF socket[k] # 0 /\ readyState[k] = "OPEN"
    THEN [st EXCEPT !.out = ClientSend(Cur(k), @, UpdateFrame(p, d))]
    ELSE IF socket[k] # 0
    THEN [st EXCEPT !.timers = Append(@, [path |-> p, data |-> d])]
    ELSE st

RECURSIVE PushAll(_, _, _)
PushAll(k, pushes, st) ==
    IF pushes = <<>> THEN st
    ELSE PushAll(k, Tail(pushes), PushData(k, Head(pushes).path, Head(pushes).data, st))

ClientSt(k) ==
    [out |-> IF socket[k] = 0 THEN <<>> ELSE toRelay[Cur(k)],
     timers |-> retryTimers[k]]

\* Store the result of a run of pushData calls of client k.
Commit(k, st) ==
    /\ toRelay' = IF socket[k] = 0 THEN toRelay
                  ELSE [toRelay EXCEPT ![Cur(k)] = st.out]
    /\ retryTimers' = [retryTimers EXCEPT ![k] = st.timers]

\* The sync listeners effect: syncData for every path; the first call finds
\* socket null and runs initSocket -> connectSocket.
SyncListenersEffect(k) ==
    /\ listeners[k] = {}
    /\ listeners' = [listeners EXCEPT ![k] = Paths]
    /\ socket' = [socket EXCEPT ![k] = IF @ = 0 THEN 1 ELSE @]
    /\ readyState' = [readyState EXCEPT ![k] = IF socket[k] = 0 THEN "CONNECTING" ELSE @]
    /\ UNCHANGED <<state, sconn, toRelay, toClient, local, retryTimers,
                   reconnectTimer, nMutations, lastUpd, closedPushes>>
    /\ UNCHANGED <<tvars, avars>>

\* The frames of the writes waiting in the retry timers.
RECURSIVE Pending(_)
Pending(timers) ==
    IF timers = <<>> THEN <<>>
    ELSE <<UpdateFrame(Head(timers).path, Head(timers).data)>> \o Pending(Tail(timers))

\* onopen flushing the writes that wait for their retry, as a write buffer.
OnOpen_Flush(k) ==
    /\ socket[k] # 0 /\ readyState[k] = "CONNECTING"
    /\ sconn[Cur(k)] # "none"
    /\ readyState' = [readyState EXCEPT ![k] = "OPEN"]
    /\ toRelay' = [toRelay EXCEPT ![Cur(k)] =
                      IF sconn[Cur(k)] = "closed" THEN @
                      ELSE Append(@, SyncRequest) \o Pending(retryTimers[k])]
    /\ retryTimers' = [retryTimers EXCEPT ![k] = <<>>]
    /\ UNCHANGED <<state, sconn, toClient, socket, listeners, local,
                   reconnectTimer, nMutations, lastUpd, closedPushes>>
    /\ UNCHANGED <<tvars, avars>>

\* socket.onopen: the handshake completed; send SYNC_REQUEST.
OnOpen(k) ==
    /\ socket[k] # 0 /\ readyState[k] = "CONNECTING"
    /\ sconn[Cur(k)] # "none"
    /\ readyState' = [readyState EXCEPT ![k] = "OPEN"]
    /\ toRelay' = [toRelay EXCEPT ![Cur(k)] = ClientSend(Cur(k), @, SyncRequest)]
    /\ UNCHANGED <<state, sconn, toClient, socket, listeners, local, retryTimers,
                   reconnectTimer, nMutations, lastUpd, closedPushes>>
    /\ UNCHANGED <<tvars, avars>>

\* socket.onclose: the connection attempt failed or the connection was lost;
\* frames not yet delivered to the client are gone; arm the reconnect timer.
OnClose(k) ==
    /\ socket[k] # 0 /\ readyState[k] \in {"CONNECTING", "OPEN"}
    /\ readyState[k] = "CONNECTING" => sconn[Cur(k)] = "none"
    /\ MayLose(Cur(k))
    /\ readyState' = [readyState EXCEPT ![k] = "CLOSED"]
    /\ reconnectTimer' = [reconnectTimer EXCEPT ![k] = @ + 1]
    /\ toClient' = [toClient EXCEPT ![Cur(k)] = <<>>]
    /\ UNCHANGED <<state, sconn, toRelay, socket, listeners, local,
                   retryTimers, nMutations, lastUpd, closedPushes>>
    /\ UNCHANGED <<tvars, avars>>

\* setTimeout(connectSocket, 3000) fires: a new WebSocket replaces socket.
ReconnectTimer(k) ==
    /\ reconnectTimer[k] > 0
    /\ reconnectTimer' = [reconnectTimer EXCEPT ![k] = @ - 1]
    /\ socket' = [socket EXCEPT ![k] = @ + 1]
    /\ readyState' = [readyState EXCEPT ![k] = "CONNECTING"]
    /\ UNCHANGED <<state, sconn, toRelay, toClient, listeners, local,
                   retryTimers, nMutations, lastUpd, closedPushes>>
    /\ UNCHANGED <<tvars, avars>>

\* The retry transmitting without the readyState test.
RetryFire_NoTest(k, r, st) ==
    [st EXCEPT !.out = ClientSend(Cur(k), @, UpdateFrame(r.path, r.data)),
               !.timers = Tail(@)]

\* The retry armed by pushData fires: transmit if the socket is open now.
RetryFire(k, r, st) ==
    IF socket[k] # 0 /\ readyState[k] = "OPEN"
    THEN [st EXCEPT !.out = ClientSend(Cur(k), @, UpdateFrame(r.path, r.data)),
                    !.timers = Tail(@)]
    ELSE [st EXCEPT !.timers = Tail(@)]

RetryTimer(k) ==
    /\ retryTimers[k] # <<>>
    /\ Commit(k, RetryFire(k, Head(retryTimers[k]), ClientSt(k)))
    /\ UNCHANGED <<state, sconn, toClient, socket, readyState, listeners, local,
                   reconnectTimer, nMutations, lastUpd, closedPushes>>
    /\ UNCHANGED <<tvars, avars>>

\* A sync helper (updateUsers, updateTeams, updateTournaments,
\* updateLiveMatch): set the slice, then pushData.
SyncHelper(k, p) ==
    /\ listeners[k] # {}
    /\ nMutations < MaxMutations
    /\ nMutations' = nMutations + 1
    /\ local' = [local EXCEPT ![k][p] = NewDoc(p)]
    /\ Commit(k, PushData(k, p, NewDoc(p), ClientSt(k)))
    /\ closedPushes' = IF Disconnected(k) THEN closedPushes \cup {NewDoc(p)}
                       ELSE closedPushes
    /\ UNCHANGED <<state, sconn, toClient, socket, readyState, listeners,
                   reconnectTimer, lastUpd>>
    /\ UNCHANGED <<tvars, avars>>

\* INIT dispatch that skips the keys whose value is falsy.
RECURSIVE InitNotes_Truthy(_, _, _)
InitNotes_Truthy(k, m, i) ==
    IF i > Len(PathOrder) THEN <<>>
    ELSE (IF PathOrder[i] \in listeners[k] /\ m[PathOrder[i]] # Null
          THEN <<[path |-> PathOrder[i], data |-> m[PathOrder[i]]]>>
          ELSE <<>>) \o InitNotes_Truthy(k, m, i + 1)

\* socket.onmessage: the list of {path, value} notifications a frame gives
\* rise to, in dispatch order; none when JSON.parse threw (caught).
RECURSIVE InitNotes(_, _, _)
InitNotes(k, m, i) ==
    IF i > Len(PathOrder) THEN <<>>
    ELSE (IF PathOrder[i] \in listeners[k]
          THEN <<[path |-> PathOrder[i], data |-> m[PathOrder[i]]]>>
          ELSE <<>>) \o InitNotes(k, m, i + 1)

Notes(k, f) ==
    IF f.type = "INIT" THEN InitNotes(k, f.data, 1)
    ELSE IF f.type = "UPDATE" /\ f.path \in listeners[k]
    THEN <<[path |-> f.path, data |-> f.data]>>
    ELSE <<>>

\* The callbacks appending the received items to the slice instead of
\* replacing it.
RECURSIVE ApplyLocal_Append(_, _)
ApplyLocal_Append(loc, notes) ==
    IF notes = <<>> THEN loc
    ELSE ApplyLocal_Append(
            [loc EXCEPT ![Head(notes).path] =
                IF @.kind = "array" /\ CbLocal(Head(notes).path, Head(notes).data).kind = "array"
                THEN Arr(@.items \o CbLocal(Head(notes).path, Head(notes).data).items)
                ELSE CbLocal(Head(notes).path, Head(notes).data)],
            Tail(notes))

RECURSIVE ApplyLocal(_, _)
ApplyLocal(loc, notes) ==
    IF notes = <<>> THEN loc
    ELSE ApplyLocal([loc EXCEPT ![Head(notes).path] = CbLocal(Head(notes).path, Head(notes).data)],
                    Tail(notes))

RECURSIVE NotePushes(_)
NotePushes(notes) ==
    IF notes = <<>> THEN <<>>
    ELSE CbPushes(Head(notes).path, Head(notes).data) \o NotePushes(Tail(notes))

OnMessage(k) ==
    /\ IsOpen(k)
    /\ toClient[Cur(k)] # <<>>
    /\ LET f == JSONParse(Head(toClient[Cur(k)]))
           notes == Notes(k, f)
       IN /\ local' = [local EXCEPT ![k] = ApplyLocal(@, notes)]
          /\ Commit(k, PushAll(k, NotePushes(notes), ClientSt(k)))
    /\ toClient' = [toClient EXCEPT ![Cur(k)] = Tail(@)]
    /\ UNCHANGED <<state, sconn, socket, readyState, listeners, reconnectTimer,
                   nMutations, lastUpd, closedPushes>>
    /\ UNCHANGED <<tvars, avars>>

\* ------------------------------------------------------------------ relay
\* The connection handler sending the seed mapping instead of the current one.
RelayConnection_Seed(c) ==
    /\ c[2] = socket[c[1]] /\ readyState[c[1]] = "CONNECTING"
    /\ sconn[c] = "none"
    /\ sconn' = [sconn EXCEPT ![c] = "open"]
    /\ toClient' = [toClient EXCEPT ![c] = RelaySend(c, @, InitFrame(SeedState))]
    /\ UNCHANGED <<state, toRelay, socket, readyState, listeners, local,
                   retryTimers, reconnectTimer, nMutations, lastUpd, closedPushes>>
    /\ UNCHANGED <<tvars, avars>>

\* wss.on('connection'): accept the connection and send the snapshot.
RelayConnection(c) ==
    /\ c[2] = socket[c[1]] /\ readyState[c[1]] = "CONNECTING"
    /\ sconn[c] = "none"
    /\ sconn' = [sconn EXCEPT ![c] = "open"]
    /\ toClient' = [toClient EXCEPT ![c] = RelaySend(c, @, InitFrame(state))]
    /\ UNCHANGED <<state, toRelay, socket, readyState, listeners, local,
                   retryTimers, reconnectTimer, nMutations, lastUpd, closedPushes>>
    /\ UNCHANGED <<tvars, avars>>

\* Broadcast without the client !== ws test: the sender gets its frame back.
Broadcast_Echo(c, f) ==
    [c2 \in Conn |->
        IF sconn[c2] = "open"
        THEN RelaySend(c2, toClient[c2], f)
        ELSE toClient[c2]]

\* Broadcast that stops after the connections created before the sender's.
Broadcast_Partial(c, f) ==
    [c2 \in Conn |->
        IF c2 # c /\ sconn[c2] = "open" /\ c2[1] < c[1]
        THEN RelaySend(c2, toClient[c2], f)
        ELSE toClient[c2]]

\* Broadcast without the readyState test: closed connections are sent to.
Broadcast_NoOpenTest(c, f) ==
    [c2 \in Conn |->
        IF c2 # c /\ sconn[c2] # "none"
        THEN RelaySend(c2, toClient[c2], f)
        ELSE toClient[c2]]

\* Broadcast that puts the frame in front of the frames already queued.
Broadcast_Front(c, f) ==
    [c2 \in Conn |->
        IF c2 # c /\ sconn[c2] = "open" /\ ClientEnd(c2)
        THEN <<f>> \o toClient[c2]
        ELSE toClient[c2]]

\* The broadcast of an UPDATE received on connection c: one frame to every
\* other connection that is open.
Broadcast(c, f) ==
    [c2 \in Conn |->
        IF c2 # c /\ sconn[c2] = "open"
        THEN RelaySend(c2, toClient[c2], f)
        ELSE toClient[c2]]

\* The message handler answering SYNC_REQUEST on every open connection.
RelayMessage_SyncAll(c) ==
    /\ sconn[c] = "open"
    /\ toRelay[c] # <<>>
    /\ LET f == JSONParse(Head(toRelay[c])) IN
         IF f.type = "UPDATE"
         THEN /\ state' = [state EXCEPT ![f.path] = f.data]
              /\ toClient' = Broadcast(c, f)
              /\ lastUpd' = [lastUpd EXCEPT ![f.path] = f.data]
         ELSE IF f.type = "SYNC_REQUEST"
         THEN /\ toClient' = [c2 \in Conn |->
                                IF sconn[c2] = "open"
                                THEN RelaySend(c2, toClient[c2], InitFrame(state))
                                ELSE toClient[c2]]
              /\ UNCHANGED <<state, lastUpd>>
         ELSE UNCHANGED <<state, toClient, lastUpd>>
    /\ toRelay' = [toRelay EXCEPT ![c] = Tail(@)]
    /\ UNCHANGED <<sconn, socket, readyState, listeners, local, retryTimers,
                   reconnectTimer, nMutations, closedPushes>>
    /\ UNCHANGED <<tvars, avars>>

\* The message handler closing the connection when JSON.parse throws.
RelayMessage_CloseOnError(c) ==
    /\ sconn[c] = "open"
    /\ toRelay[c] # <<>>
    /\ LET f == JSONParse(Head(toRelay[c])) IN
         IF f.type = "UPDATE"
         THEN /\ state' = [state EXCEPT ![f.path] = f.data]
              /\ toClient' = Broadcast(c, f)
              /\ lastUpd' = [lastUpd EXCEPT ![f.path] = f.data]
              /\ toRelay' = [toRelay EXCEPT ![c] = Tail(@)]
              /\ UNCHANGED sconn
         ELSE IF f.type = "SYNC_REQUEST"
         THEN /\ toClient' = [toClient EXCEPT ![c] = RelaySend(c, @, InitFrame(state))]
              /\ toRelay' = [toRelay EXCEPT ![c] = Tail(@)]
              /\ UNCHANGED <<state, lastUpd, sconn>>
         ELSE /\ sconn' = [sconn EXCEPT ![c] = "closed"]
              /\ toRelay' = [toRelay EXCEPT ![c] = <<>>]
              /\ UNCHANGED <<state, toClient, lastUpd>>
    /\ UNCHANGED <<socket, readyState, listeners, local, retryTimers,
                   reconnectTimer, nMutations, closedPushes>>
    /\ UNCHANGED <<tvars, avars>>

\* ws.on('message') for the frame at the head of connection c's stream; a
\* message on which JSON.parse throws is caught and has no effect.
RelayMessage(c) ==
    /\ sconn[c] = "open"
    /\ toRelay[c] # <<>>
    /\ LET f == JSONParse(Head(toRelay[c])) IN
         IF f.type = "UPDATE"
         THEN /\ state' = [state EXCEPT ![f.path] = f.data]
              /\ toClient' = Broadcast(c, f)
              /\ lastUpd' = [lastUpd EXCEPT ![f.path] = f.data]
         ELSE IF f.type = "SYNC_REQUEST"
         THEN /\ toClient' = [toClient EXCEPT ![c] = RelaySend(c, @, InitFrame(state))]
              /\ UNCHANGED <<state, lastUpd, closedPushes>>
         ELSE UNCHANGED <<state, toClient, lastUpd, closedPushes>>
    /\ toRelay' = [toRelay EXCEPT ![c] = Tail(@)]
    /\ UNCHANGED <<sconn, socket, readyState, listeners, local, retryTimers,
                   reconnectTimer, nMutations, closedPushes>>
    /\ UNCHANGED <<tvars, avars>>

\* The relay sees connection c close: it leaves wss.clients; frames of c it
\* had not read are never processed.
RelayClose(c) ==
    /\ sconn[c] = "open"
    /\ MayLose(c)
    /\ sconn' = [sconn EXCEPT ![c] = "closed"]
    /\ toRelay' = [toRelay EXCEPT ![c] = <<>>]
    /\ UNCHANGED <<state, toClient, socket, readyState, listeners, local,
                   retryTimers, reconnectTimer, nMutations, lastUpd, closedPushes>>
    /\ UNCHANGED <<tvars, avars>>

Next ==
    \/ \E k \in Clients : SyncListenersEffect(k)
    \/ \E k \in Clients : OnOpen(k)
    \/ \E k \in Clients : OnClose(k)
    \/ \E k \in Clients : ReconnectTimer(k)
    \/ \E k \in Clients : RetryTimer(k)
    \/ \E k \in Clients : OnMessage(k)
    \/ \E k \in Clients, p \in Paths : SyncHelper(k, p)
    \/ \E c \in Conn : RelayConnection(c)
    \/ \E c \in Conn : RelayMessage(c)
    \/ \E c \in Conn : RelayClose(c)

Spec == Init /\ [][Next]_vars

\* ===================================================== transport client
\* services/cloud.ts of one process, with both backends.  The process calls
\* initCloud, syncData, the functions syncData returned, and pushData; the
\* WebSocket, the timers and the datastore raise their events in between.
\* The callbacks are opaque: an invocation is recorded, nothing else.
MaxOps == 3          \* calls of initCloud, syncData, unsubscribe, pushData
MaxFailed == 2       \* closes of the relay socket that are counted
Callbacks == {"f", "g"}

mvars == <<state, sconn, toRelay, toClient, socket, readyState, listeners,
           local, retryTimers, reconnectTimer, nMutations, lastUpd, closedPushes>>

\* A value that JSON.stringify rejects (a circular structure), and an object
\* with a function-valued property next to its scoreA.
Circular == [kind |-> "circular", items |-> <<>>]
Fn == "fn"
WithFn(scoreA) == [kind |-> "object", items |-> <<scoreA, Fn>>]

\* JSON.stringify: throws on a circular structure; drops the function-valued
\* properties of an object; a function in an array becomes null.
TypeError == [kind |-> "TypeError", items |-> <<>>]
JSONStringify(d) ==
    IF d.kind = "circular" THEN TypeError
    ELSE IF d.kind = "object" THEN [d EXCEPT !.items = SelectSeq(@, LAMBDA i : i # Fn)]
    ELSE IF d.kind = "array"
    THEN [d EXCEPT !.items = [i \in 1..Len(@) |-> IF @[i] = Fn THEN "" ELSE @[i]]]
    ELSE d

\* The values the process publishes, the configurations initCloud is given
\* (without databaseURL, accepted by the SDK, rejected by the SDK), and the
\* messages that arrive on the socket.
PubValues == {Null, Match("1"), WithFn("1"), Circular}
Configs == {"noURL", "valid", "rejected"}
InitMappings == {[p \in K |-> SeedState[p]] : K \in SUBSET Paths}
Incoming ==
    {UpdateFrame(p, Match("2")) : p \in Paths \cup {"teams"}}
        \cup {InitFrame(m) : m \in InitMappings} \cup {Unparseable}

Live(s) == s \in {"CONNECTING", "OPEN"}

\* initCloud: without databaseURL return false; when initializeApp or
\* getDatabase throws return false; otherwise set db and return true.
initCloud(cfg) ==
    /\ nOps < MaxOps
    /\ nOps' = nOps + 1
    /\ db' = IF cfg = "valid" THEN TRUE ELSE db
    /\ op' = [name |-> "initCloud", config |-> cfg, returned |-> (cfg = "valid")]
    /\ calls' = <<>>
    /\ UNCHANGED <<sock, leaked, reconnects, retries, lists, subs, store, sent,
                   reachable, routed, ignored, applied, failed>>
    /\ UNCHANGED <<mvars, avars>>

\* The listener list of a path; a path nobody subscribed to has none.
ListOf(p) == IF p \in DOMAIN lists THEN lists[p] ELSE <<>>

\* syncData calling connectSocket without testing that socket is null.
syncData_NoSocketTest(p, cb) ==
    /\ nOps < MaxOps
    /\ nOps' = nOps + 1
    /\ lists' = [lists EXCEPT ![p] = Append(@, cb)]
    /\ IF db
       THEN /\ subs' = Append(subs, [path |-> p, cb |-> cb, backend |-> "datastore"])
            /\ routed' = routed \cup {"datastore"}
            /\ UNCHANGED <<sock, leaked, sent>>
       ELSE /\ subs' = Append(subs, [path |-> p, cb |-> cb, backend |-> "relay"])
            /\ routed' = routed \cup {"relay"}
            /\ sock' = "CONNECTING" /\ sent' = <<>>
            /\ leaked' = IF Live(sock) THEN leaked + 1 ELSE leaked
    /\ op' = [name |-> "syncData", path |-> p, cb |-> cb]
    /\ calls' = <<>>
    /\ UNCHANGED <<db, reconnects, retries, store, reachable, ignored, applied, failed>>
    /\ UNCHANGED <<mvars, avars>>

\* syncData(path, onData): register the listener; with db, attach onValue
\* and return its unsubscribe; without, open the socket if there is none
\* and return the function that filters onData out of the list.
syncData(p, cb) ==
    /\ nOps < MaxOps
    /\ nOps' = nOps + 1
    /\ lists' = [lists EXCEPT ![p] = Append(@, cb)]
    /\ IF db
       THEN /\ subs' = Append(subs, [path |-> p, cb |-> cb, backend |-> "datastore"])
            /\ routed' = routed \cup {"datastore"}
            /\ UNCHANGED <<sock, leaked, sent>>
       ELSE /\ subs' = Append(subs, [path |-> p, cb |-> cb, backend |-> "relay"])
            /\ routed' = routed \cup {"relay"}
            /\ IF sock = "null"
               THEN sock' = "CONNECTING" /\ sent' = <<>> /\ UNCHANGED leaked
               ELSE UNCHANGED <<sock, leaked, sent>>
    /\ op' = [name |-> "syncData", path |-> p, cb |-> cb]
    /\ calls' = <<>>
    /\ UNCHANGED <<db, reconnects, retries, store, reachable, ignored, applied, failed>>
    /\ UNCHANGED <<mvars, avars>>

\* s without its i-th element.
Without(s, i) == SubSeq(s, 1, i - 1) \o SubSeq(s, i + 1, Len(s))

\* The function syncData returned for subs[i] is called: the relay one
\* filters every entry equal to onData out of listeners[path]; the
\* datastore one is the SDK's unsubscribe, which detaches that onValue
\* listener.
unsubscribe(i) ==
    /\ nOps < MaxOps
    /\ nOps' = nOps + 1
    /\ i \in 1..Len(subs)
    /\ lists' = IF subs[i].backend = "relay"
                THEN [lists EXCEPT ![subs[i].path] =
                         SelectSeq(@, LAMBDA c : c # subs[i].cb)]
                ELSE lists
    /\ subs' = Without(subs, i)
    /\ op' = [name |-> "unsubscribe", path |-> subs[i].path, cb |-> subs[i].cb]
    /\ calls' = <<>>
    /\ UNCHANGED <<db, sock, leaked, reconnects, retries, store, sent,
                   reachable, routed, ignored, applied, failed>>
    /\ UNCHANGED <<mvars, avars>>

\* pushData without the return that ends the datastore branch: the write
\* goes on to the socket as well.
pushData_FallThrough(p, d, denied) ==
    /\ nOps < MaxOps
    /\ nOps' = nOps + 1
    /\ store' = IF ~db \/ JSONStringify(d) = TypeError \/ denied THEN store
                ELSE [store EXCEPT ![p] = JSONStringify(d)]
    /\ routed' = routed \cup {IF db THEN "datastore" ELSE "relay"}
    /\ IF sock = "OPEN"
       THEN /\ sent' = IF JSONStringify(d) = TypeError THEN sent
                       ELSE Append(sent, UpdateFrame(p, JSONStringify(d)))
            /\ op' = [name |-> "pushData", path |-> p, data |-> d,
                      promise |-> IF JSONStringify(d) = TypeError
                                  THEN "rejected" ELSE "fulfilled"]
            /\ UNCHANGED retries
       ELSE /\ retries' = IF sock # "null"
                          THEN Append(retries, [path |-> p, data |-> d])
                          ELSE retries
            /\ op' = [name |-> "pushData", path |-> p, data |-> d,
                      promise |-> "fulfilled"]
            /\ UNCHANGED sent
    /\ calls' = <<>>
    /\ UNCHANGED <<db, sock, leaked, reconnects, lists, subs, reachable,
                   ignored, applied, failed>>
    /\ UNCHANGED <<mvars, avars>>

\* pushData(path, data).  With db: write the JSON round trip of data to the
\* datastore inside try/catch (a stringify error or a rejected write is
\* logged).  Without: send the UPDATE if the socket is open, arm one retry
\* if there is a socket that is not open, do nothing if there is none; the
\* stringify of the frame is not inside a try, so its error rejects the
\* promise that pushData returned.
pushData(p, d, denied) ==
    /\ nOps < MaxOps
    /\ nOps' = nOps + 1
    /\ IF db
       THEN /\ store' = IF JSONStringify(d) = TypeError \/ denied THEN store
                        ELSE [store EXCEPT ![p] = JSONStringify(d)]
            /\ routed' = routed \cup {"datastore"}
            /\ op' = [name |-> "pushData", path |-> p, data |-> d,
                      promise |-> "fulfilled"]
            /\ UNCHANGED <<sent, retries>>
       ELSE /\ routed' = routed \cup {"relay"}
            /\ IF sock = "OPEN"
               THEN /\ sent' = IF JSONStringify(d) = TypeError THEN sent
                               ELSE Append(sent, UpdateFrame(p, JSONStringify(d)))
                    /\ op' = [name |-> "pushData", path |-> p, data |-> d,
                              promise |-> IF JSONStringify(d) = TypeError
                                          THEN "rejected" ELSE "fulfilled"]
                    /\ UNCHANGED retries
               ELSE /\ retries' = IF sock # "null"
                                  THEN Append(retries, [path |-> p, data |-> d])
                                  ELSE retries
                    /\ op' = [name |-> "pushData", path |-> p, data |-> d,
                              promise |-> "fulfilled"]
                    /\ UNCHANGED sent
            /\ UNCHANGED store
    /\ calls' = <<>>
    /\ UNCHANGED <<db, sock, leaked, reconnects, lists, subs, reachable,
                   ignored, applied, failed>>
    /\ UNCHANGED <<mvars, avars>>

\* The retry sending without the readyState test.
retry_NoOpenTest ==
    /\ retries # <<>>
    /\ retries' = Tail(retries)
    /\ sent' = IF sock # "null" /\ JSONStringify(Head(retries).data) # TypeError
               THEN Append(sent, UpdateFrame(Head(retries).path,
                                             JSONStringify(Head(retries).data)))
               ELSE sent
    /\ op' = [name |-> "retry", path |-> Head(retries).path,
              data |-> Head(retries).data]
    /\ calls' = <<>>
    /\ UNCHANGED <<db, sock, leaked, reconnects, lists, subs, store,
                   reachable, nOps, routed, ignored, applied, failed>>
    /\ UNCHANGED <<mvars, avars>>

\* The retry that pushData armed fires: send if the socket is open now.
retry ==
    /\ retries # <<>>
    /\ retries' = Tail(retries)
    /\ sent' = IF sock = "OPEN" /\ JSONStringify(Head(retries).data) # TypeError
               THEN Append(sent, UpdateFrame(Head(retries).path,
                                             JSONStringify(Head(retries).data)))
               ELSE sent
    /\ op' = [name |-> "retry", path |-> Head(retries).path,
              data |-> Head(retries).data]
    /\ calls' = <<>>
    /\ UNCHANGED <<db, sock, leaked, reconnects, lists, subs, store,
                   reachable, nOps, routed, ignored, applied, failed>>
    /\ UNCHANGED <<mvars, avars>>

\* socket.onopen of the socket in `socket`: send SYNC_REQUEST.
onopen ==
    /\ sock = "CONNECTING" /\ reachable
    /\ sock' = "OPEN"
    /\ sent' = Append(sent, SyncRequest)
    /\ op' = [name |-> "onopen"]
    /\ calls' = <<>>
    /\ UNCHANGED <<db, leaked, reconnects, retries, lists, subs, store,
                   reachable, nOps, routed, ignored, applied, failed>>
    /\ UNCHANGED <<mvars, avars>>

\* onclose arming the reconnect timer only when the socket had been open.
onclose_OnlyAfterOpen ==
    /\ Live(sock) /\ ~reachable
    /\ sock' = "CLOSED"
    /\ reconnects' = IF sock = "OPEN" THEN reconnects + 1 ELSE reconnects
    /\ op' = [name |-> "onclose"]
    /\ calls' = <<>>
    /\ failed' = IF failed < MaxFailed THEN failed + 1 ELSE failed
    /\ UNCHANGED <<db, leaked, retries, lists, subs, store, sent,
                   reachable, nOps, routed, ignored, applied>>
    /\ UNCHANGED <<mvars, avars>>

\* socket.onclose: the attempt failed or the connection was lost; arm the
\* reconnect timer.
onclose ==
    /\ Live(sock) /\ ~reachable
    /\ sock' = "CLOSED"
    /\ reconnects' = reconnects + 1
    /\ op' = [name |-> "onclose"]
    /\ calls' = <<>>
    /\ failed' = IF failed < MaxFailed THEN failed + 1 ELSE failed
    /\ UNCHANGED <<db, leaked, retries, lists, subs, store, sent,
                   reachable, nOps, routed, ignored, applied>>
    /\ UNCHANGED <<mvars, avars>>

\* The reconnect timer fires: connectSocket puts a new WebSocket in `socket`.
connectSocket ==
    /\ reconnects > 0
    /\ reconnects' = reconnects - 1
    /\ sock' = "CONNECTING"
    /\ leaked' = IF Live(sock) THEN leaked + 1 ELSE leaked
    /\ sent' = <<>>
    /\ op' = [name |-> "connectSocket"]
    /\ calls' = <<>>
    /\ UNCHANGED <<db, retries, lists, subs, store, reachable, nOps, routed,
                   ignored, applied, failed>>
    /\ UNCHANGED <<mvars, avars>>

\* The invocations of the listeners of path p with data d, in list order.
Invoke(p, d) ==
    [i \in 1..Len(ListOf(p)) |-> [cb |-> ListOf(p)[i], path |-> p, data |-> d]]

\* INIT: for each key of the mapping, in key order, the listeners of that key.
RECURSIVE InitCalls(_, _)
InitCalls(m, i) ==
    IF i > Len(PathOrder) THEN <<>>
    ELSE (IF PathOrder[i] \in DOMAIN m THEN Invoke(PathOrder[i], m[PathOrder[i]])
          ELSE <<>>) \o InitCalls(m, i + 1)

\* onmessage invoking the listeners of every path for an UPDATE.
Dispatch_AllPaths(msg) ==
    IF JSONParse(msg).type = "INIT" THEN InitCalls(JSONParse(msg).data, 1)
    ELSE IF JSONParse(msg).type = "UPDATE"
    THEN Invoke("users", JSONParse(msg).data) \o Invoke("liveMatch", JSONParse(msg).data)
    ELSE <<>>

\* The invocations socket.onmessage makes for a message: none when
\* JSON.parse throws (caught) or the type is neither INIT nor UPDATE.
Dispatch(msg) ==
    IF JSONParse(msg).type = "INIT" THEN InitCalls(JSONParse(msg).data, 1)
    ELSE IF JSONParse(msg).type = "UPDATE"
    THEN Invoke(JSONParse(msg).path, JSONParse(msg).data)
    ELSE <<>>

\* socket.onmessage for a message arriving on the open socket.
onmessage(msg) ==
    /\ sock = "OPEN"
    /\ calls' = Dispatch(msg)
    /\ op' = [name |-> "onmessage", msg |-> msg]
    /\ UNCHANGED <<db, sock, leaked, reconnects, retries, lists, subs, store,
                   sent, reachable, nOps, routed, ignored, applied, failed>>
    /\ UNCHANGED <<mvars, avars>>

\* The onValue listener of subscription subs[i] receives a snapshot.
onValue(i) ==
    /\ i \in 1..Len(subs) /\ subs[i].backend = "datastore"
    /\ calls' = <<[cb |-> subs[i].cb, path |-> subs[i].path,
                   data |-> store[subs[i].path]]>>
    /\ op' = [name |-> "onValue", path |-> subs[i].path, cb |-> subs[i].cb]
    /\ UNCHANGED <<db, sock, leaked, reconnects, retries, lists, subs, store,
                   sent, reachable, nOps, routed, ignored, applied, failed>>
    /\ UNCHANGED <<mvars, avars>>

\* Another device writes the datastore.
remoteSet(p, d) ==
    /\ db /\ store[p] # d
    /\ store' = [store EXCEPT ![p] = d]
    /\ op' = [name |-> "remoteSet", path |-> p, data |-> d]
    /\ calls' = <<>>
    /\ UNCHANGED <<db, sock, leaked, reconnects, retries, lists, subs, sent,
                   reachable, nOps, routed, ignored, applied, failed>>
    /\ UNCHANGED <<mvars, avars>>

\* The relay stops, or the network to it fails; it comes back.
relayDown ==
    /\ sock # "null" /\ reachable
    /\ reachable' = FALSE
    /\ op' = [name |-> "relayDown"]
    /\ calls' = <<>>
    /\ UNCHANGED <<db, sock, leaked, reconnects, retries, lists, subs, store,
                   sent, nOps, routed, ignored, applied, failed>>
    /\ UNCHANGED <<mvars, avars>>

relayUp ==
    /\ ~reachable
    /\ reachable' = TRUE
    /\ op' = [name |-> "relayUp"]
    /\ calls' = <<>>
    /\ UNCHANGED <<db, sock, leaked, reconnects, retries, lists, subs, store,
                   sent, nOps, routed, ignored, applied, failed>>
    /\ UNCHANGED <<mvars, avars>>

TransportNext ==
    \/ \E cfg \in Configs : initCloud(cfg)
    \/ \E p \in Paths, cb \in Callbacks : syncData(p, cb)
    \/ \E i \in 1..MaxOps : unsubscribe(i)
    \/ \E p \in Paths, d \in PubValues, denied \in BOOLEAN : pushData(p, d, denied)
    \/ retry
    \/ onopen
    \/ onclose
    \/ connectSocket
    \/ \E msg \in Incoming : onmessage(msg)
    \/ \E i \in 1..MaxOps : onValue(i)
    \/ \E p \in Paths, d \in {Null, Match("2")} : remoteSet(p, d)
    \/ relayDown
    \/ relayUp

TransportSpec == Init /\ [][TransportNext]_vars

\* ============================================================ properties
\* The relay reads the frame at the head of connection c's stream in this step.
RelayReads(c) ==
    /\ sconn[c] = "open" /\ sconn'[c] = "open"
    /\ toRelay[c] # <<>> /\ toRelay'[c] = Tail(toRelay[c])

RelayReadsUpdate(c) == RelayReads(c) /\ Head(toRelay[c]).type = "UPDATE"

IsUpdateFor(p, f) == f.type = "UPDATE" /\ f.path = p

\* C2 (no cross-client echo): whenever the relay processes an UPDATE frame
\* received on connection c, it sends nothing on c: the stream of frames in
\* flight to c is left as it was.
C2_NoEcho ==
    [][\A c \in Conn : RelayReadsUpdate(c) => toClient'[c] = toClient[c]]_vars

\* An UPDATE was processed and its forward is in flight to another
\* connection while the sender's connection is open with nothing in flight.
C2_Witness ==
    \E c, c2 \in Conn, p \in Paths :
        /\ c # c2 /\ sconn[c] = "open" /\ ClientEnd(c) /\ toClient[c] = <<>>
        /\ lastUpd[p] # NoUpdate /\ local[c[1]][p] = lastUpd[p]
        /\ toClient[c2] # <<>>
        /\ Head(toClient[c2]) = UpdateFrame(p, lastUpd[p])

\* C3 (relay fan-out): when the relay processes UPDATE{path, data} received
\* on connection c, it overwrites its value at path with data, leaves the
\* other paths alone, and sends exactly one UPDATE frame with the same path
\* and data to every connection other than c that is open (the frame is in
\* flight unless the client end is already gone), and nothing to the rest.
C3_FanOut ==
    [][\A c \in Conn : RelayReadsUpdate(c) =>
          LET f == Head(toRelay[c]) IN
          /\ state' = [state EXCEPT ![f.path] = f.data]
          /\ \A c2 \in Conn :
                toClient'[c2] =
                    IF c2 # c /\ sconn[c2] = "open" /\ ClientEnd(c2)
                    THEN Append(toClient[c2], UpdateFrame(f.path, f.data))
                    ELSE toClient[c2]]_vars

\* The relay holds a liveMatch document received from one connection, and
\* the forward of it is the newest frame in flight to another open one.
C3_Witness ==
    \E c, c2 \in Conn :
        /\ c # c2 /\ sconn[c] = "open" /\ sconn[c2] = "open"
        /\ lastUpd["liveMatch"] # NoUpdate
        /\ state["liveMatch"] = lastUpd["liveMatch"]
        /\ local[c[1]]["liveMatch"] = state["liveMatch"]
        /\ Len(toClient[c2]) >= 2
        /\ toClient[c2][Len(toClient[c2])] = UpdateFrame("liveMatch", state["liveMatch"])

\* The mapping an INIT must carry: per path the data of the last UPDATE the
\* relay processed, the seed value if there was none.
Snapshot == [p \in Paths |-> IF lastUpd[p] = NoUpdate THEN SeedState[p] ELSE lastUpd[p]]

\* C4 (new-connection snapshot): when the relay accepts a connection, the
\* first and only frame it puts on it is an INIT whose mapping holds, for
\* each path, the data of the most recent UPDATE processed for that path, or
\* the seed value if none was processed.
C4_Snapshot ==
    [][\A c \in Conn : (sconn[c] = "none" /\ sconn'[c] = "open") =>
          toClient'[c] = <<InitFrame(Snapshot)>>]_vars

\* A client that is still connecting has, as the first frame in flight, an
\* INIT carrying a liveMatch document published before it connected.
C4_Witness ==
    \E k \in Clients :
        /\ socket[k] # 0 /\ readyState[k] = "CONNECTING"
        /\ toClient[Cur(k)] # <<>>
        /\ Head(toClient[Cur(k)]).type = "INIT"
        /\ Head(toClient[Cur(k)]).data["liveMatch"] # Null
        /\ Head(toClient[Cur(k)]).data["liveMatch"] = lastUpd["liveMatch"]

\* C7 (SYNC_REQUEST): when the relay processes SYNC_REQUEST received on
\* connection c, it sends one INIT with the full current mapping on c (in
\* flight unless the client end is gone), sends nothing on any other
\* connection and leaves its mapping unchanged.
C7_SyncRequest ==
    [][\A c \in Conn :
          (RelayReads(c) /\ Head(toRelay[c]).type = "SYNC_REQUEST") =>
              /\ state' = state
              /\ toClient'[c] = IF ClientEnd(c)
                                THEN Append(toClient[c], InitFrame(state))
                                ELSE toClient[c]
              /\ \A c2 \in Conn \ {c} : toClient'[c2] = toClient[c2]]_vars

\* The answer to a SYNC_REQUEST is in flight on an open connection, behind
\* another frame, while another connection is open too.
C7_Witness ==
    \E k \in Clients, c2 \in Conn :
        /\ IsOpen(k) /\ c2[1] # k /\ sconn[c2] = "open" /\ ClientEnd(c2)
        /\ toRelay[Cur(k)] = <<>>
        /\ Len(toClient[Cur(k)]) >= 2
        /\ toClient[Cur(k)][Len(toClient[Cur(k)])] = InitFrame(state)

\* C8 (best-effort delivery): no frame is ever added to the stream of a
\* connection that is not open at the relay; the only thing that can happen
\* to such a stream is that the client reads from it, that it is dropped at
\* the close, or that the relay accepts the connection and sends the INIT.
C8_BestEffort ==
    [][\A c \in Conn : sconn[c] # "open" =>
          \/ toClient'[c] = toClient[c]
          \/ toClient[c] # <<>> /\ toClient'[c] = Tail(toClient[c])
          \/ toClient'[c] = <<>>
          \/ sconn'[c] = "open" /\ toClient'[c] = <<InitFrame(state)>>]_vars

\* The relay holds a liveMatch document that an open client never saw: its
\* connection was closed at the relay when the UPDATE was processed, so
\* nothing was sent or queued for it.
C8_Witness ==
    \E k \in Clients :
        /\ IsOpen(k) /\ sconn[Cur(k)] = "closed"
        /\ toClient[Cur(k)] = <<>>
        /\ lastUpd["liveMatch"] # NoUpdate
        /\ local[k]["liveMatch"] = Null

\* The UPDATE frames for path p in a stream, in stream order.
UpdatesFor(p, stream) == SelectSeq(stream, LAMBDA f : IsUpdateFor(p, f))

\* C6 (per-path ordering): the UPDATE frames for one path in flight to a
\* connection change in three ways only: the client reads the oldest one,
\* the stream is dropped at a close, or the relay, processing an UPDATE for
\* that path received on another connection, puts that UPDATE behind all
\* the earlier ones.  So the frames sent to a connection for one path are in
\* the order in which the relay received them.
C6_PathOrder ==
    [][\A c2 \in Conn, p \in Paths :
          LET old == UpdatesFor(p, toClient[c2])
              new == UpdatesFor(p, toClient'[c2])
          IN \/ new = old
             \/ old # <<>> /\ new = Tail(old)
             \/ new = <<>>
             \/ \E c \in Conn \ {c2} :
                   /\ RelayReadsUpdate(c) /\ Head(toRelay[c]).path = p
                   /\ new = Append(old, UpdateFrame(p, Head(toRelay[c]).data))
                   /\ lastUpd'[p] = Head(toRelay[c]).data]_vars

\* Two UPDATE frames for one path with different data are in flight to one
\* connection, and the later one carries what the relay received last.
C6_Witness ==
    \E c \in Conn, p \in Paths :
        LET u == UpdatesFor(p, toClient[c]) IN
        /\ Len(u) >= 2
        /\ u[1].data # u[2].data
        /\ u[Len(u)].data = lastUpd[p]

\* What socket.send of frame f by client k leaves in flight.
Sent(k, f) == IF sconn[Cur(k)] = "closed" THEN toRelay[Cur(k)]
              ELSE Append(toRelay[Cur(k)], f)

\* Client k makes a user-initiated mutation in this step.
Mutates(k) == nMutations' = nMutations + 1 /\ local'[k] # local[k]

\* Client k reads the frame at the head of its stream in this step.
ClientReads(k) ==
    /\ IsOpen(k) /\ readyState'[k] = "OPEN"
    /\ toClient[Cur(k)] # <<>> /\ toClient'[Cur(k)] = Tail(toClient[Cur(k)])

\* C9 (publish with bounded retry): a pushData call made with the socket
\* open transmits its UPDATE at once and arms no retry; a call made with the
\* socket not open transmits nothing and arms exactly one retry; when a
\* retry fires it is removed for good, and it transmits its UPDATE if and
\* only if the socket is open at that moment.  A pushData call made by a
\* callback (socket open) transmits one UPDATE and arms nothing.
C9_BoundedRetry ==
    [][\A k \in Clients :
          /\ Mutates(k) =>
                \E p \in Paths :
                    LET d == local'[k][p] IN
                    /\ local' = [local EXCEPT ![k][p] = d]
                    /\ IF IsOpen(k)
                       THEN /\ retryTimers' = retryTimers
                            /\ toRelay' = [toRelay EXCEPT ![Cur(k)] = Sent(k, UpdateFrame(p, d))]
                       ELSE /\ toRelay' = toRelay
                            /\ retryTimers' = [retryTimers EXCEPT ![k] =
                                                  Append(@, [path |-> p, data |-> d])]
          /\ (~Mutates(k) /\ retryTimers'[k] # retryTimers[k]) =>
                /\ retryTimers[k] # <<>>
                /\ retryTimers'[k] = Tail(retryTimers[k])
                /\ toRelay' = [toRelay EXCEPT ![Cur(k)] =
                                  IF IsOpen(k)
                                  THEN Sent(k, UpdateFrame(Head(retryTimers[k]).path,
                                                           Head(retryTimers[k]).data))
                                  ELSE @]
          /\ ClientReads(k) =>
                /\ retryTimers'[k] = retryTimers[k]
                /\ \/ toRelay'[Cur(k)] = toRelay[Cur(k)]
                   \/ \E p \in Paths :
                         toRelay'[Cur(k)] = Sent(k, UpdateFrame(p, local'[k][p]))]_vars

\* A write made while disconnected was dropped for good: its retry fired
\* with the socket not open, nothing of it is in flight or at the relay, and
\* the client is open again on a new socket.
C9_Witness ==
    \E k \in Clients :
        /\ closedPushes # {} /\ local[k]["liveMatch"] \in closedPushes
        /\ retryTimers[k] = <<>>
        /\ socket[k] >= 2 /\ IsOpen(k)
        /\ lastUpd["liveMatch"] = NoUpdate
        /\ \A c \in Conn : UpdatesFor("liveMatch", toRelay[c]) = <<>>

\* C10 as claimed: a document handed to pushData while the connection was
\* closed is never in flight to the relay.
C10_NeverTransmitted ==
    \A c \in Conn : \A i \in 1..Len(toRelay[c]) :
        toRelay[c][i].type = "UPDATE" => toRelay[c][i].data \notin closedPushes

\* C10 amended (no buffering across a disconnection): opening a socket
\* transmits SYNC_REQUEST and nothing else, and leaves the retries armed; a
\* document handed to pushData while the connection was closed gets in
\* flight to the relay only when its retry fires with the socket open.
C10_NoBuffering ==
    [][\A k \in Clients :
          /\ (socket[k] # 0 /\ readyState[k] = "CONNECTING" /\ readyState'[k] = "OPEN") =>
                /\ toRelay' = [toRelay EXCEPT ![Cur(k)] = Sent(k, SyncRequest)]
                /\ retryTimers' = retryTimers
          /\ \A g \in Gens :
                LET old == toRelay[<<k, g>>]
                    new == toRelay'[<<k, g>>]
                IN (/\ Len(new) > Len(old)
                    /\ new[Len(new)].type = "UPDATE"
                    /\ new[Len(new)].data \in closedPushes') =>
                        /\ g = socket[k] /\ IsOpen(k)
                        /\ retryTimers[k] # <<>>
                        /\ retryTimers'[k] = Tail(retryTimers[k])
                        /\ new = Append(old, UpdateFrame(Head(retryTimers[k]).path,
                                                         Head(retryTimers[k]).data))]_vars

\* A document handed to pushData while the connection was closed is in
\* flight to the relay on the socket of the reconnect.
C10_Witness ==
    \E k \in Clients :
        /\ socket[k] >= 2
        /\ \E i \in 1..Len(toRelay[Cur(k)]) :
              /\ toRelay[Cur(k)][i].type = "UPDATE"
              /\ toRelay[Cur(k)][i].data \in closedPushes

\* Client k, on a socket of a reconnect, applies an INIT in this step.
AppliesInitAfterReconnect(k) ==
    socket[k] >= 2 /\ ClientReads(k) /\ Head(toClient[Cur(k)]).type = "INIT"

\* C5 as claimed: when a reconnected client has applied an INIT, its value
\* for every subscribed path is the relay's current value.
C5_EqualsRelay ==
    [][\A k \in Clients : AppliesInitAfterReconnect(k) =>
          \A p \in listeners[k] : local'[k][p] = state'[p]]_vars

\* C5 amended (reconnect resync): every INIT the relay sends on the
\* connection of a reconnect carries, per path, the data of the last UPDATE
\* the relay has processed (the seed if none), whoever published it and
\* whenever; and when the client applies such an INIT, its value for every
\* subscribed path becomes the value the INIT carries, an empty users value
\* being replaced by the default admin list.
C5_Resync ==
    [][\A k \in Clients :
          /\ AppliesInitAfterReconnect(k) =>
                \A p \in listeners[k] :
                    local'[k][p] =
                        IF p = "users" /\ Head(toClient[Cur(k)]).data[p].items = <<>>
                        THEN Arr(<<DEFAULT_ADMIN>>)
                        ELSE Head(toClient[Cur(k)]).data[p]
          /\ \A g \in Gens \ {1} :
                LET old == toClient[<<k, g>>]
                    new == toClient'[<<k, g>>]
                IN (Len(new) > Len(old) /\ new[Len(new)].type = "INIT") =>
                        new = Append(old, InitFrame(Snapshot))]_vars

\* A reconnected client has applied its INITs and holds the liveMatch
\* document that another client published, which the relay holds too.
C5_Witness ==
    \E k, k2 \in Clients :
        /\ k # k2 /\ socket[k] >= 2 /\ IsOpen(k)
        /\ toClient[Cur(k)] = <<>> /\ toRelay[Cur(k)] = <<>>
        /\ nMutations >= 1 /\ closedPushes = {}
        /\ state["liveMatch"] # Null
        /\ local[k]["liveMatch"] = state["liveMatch"]
        /\ local[k2]["liveMatch"] = state["liveMatch"]
        /\ toClient[Cur(k2)] = <<>>

\* Nothing is in flight and no timer is pending.
Quiescent ==
    /\ \A c \in Conn : toRelay[c] = <<>> /\ toClient[c] = <<>>
    /\ \A k \in Clients : retryTimers[k] = <<>> /\ reconnectTimer[k] = 0

\* Client k is connected: its socket is open at both ends.
Connected(k) == IsOpen(k) /\ sconn[Cur(k)] = "open"

\* C1 (convergence): when no connection was ever lost, nothing is in flight
\* and no timer is pending, every connected client's value for a path
\* equals the data of the last UPDATE the relay received for that path.
C1_Convergence ==
    (Quiescent /\ \A c \in Conn : ~Lost(c)) =>
        \A k \in Clients : Connected(k) =>
            \A p \in Paths : lastUpd[p] # NoUpdate => local[k][p] = lastUpd[p]

\* ================================================== unparseable messages
\* The relay and its clients with connections that stay up, where a client
\* may send the relay a message that is not JSON, and a message that is not
\* JSON may arrive on a client's socket.  `ignored` records where, and after
\* how many mutations, such a message was put on a connection.  Clients
\* being interchangeable, the connection is the one of client 1.
Garbled(side, c) == \E n \in 0..MaxMutations : <<side, c, n>> \in ignored

\* The client end of connection c sends a message that is not JSON.
SendUnparseable(c) ==
    /\ c[1] = 1
    /\ sconn[c] = "open" /\ ClientEnd(c) /\ readyState[c[1]] = "OPEN"
    /\ ~Garbled("relay", c)
    /\ toRelay' = [toRelay EXCEPT ![c] = Append(@, Unparseable)]
    /\ ignored' = ignored \cup {<<"relay", c, nMutations>>}
    /\ UNCHANGED <<state, sconn, toClient, socket, readyState, listeners, local,
                   retryTimers, reconnectTimer, nMutations, lastUpd, closedPushes>>
    /\ UNCHANGED <<db, sock, leaked, reconnects, retries, lists, subs, store,
                   sent, reachable, nOps, op, calls, routed, applied, failed>>
    /\ UNCHANGED avars

\* A message that is not JSON arrives on the socket of client k.
ReceiveUnparseable(k) ==
    /\ k = 1
    /\ IsOpen(k) /\ sconn[Cur(k)] = "open"
    /\ ~Garbled("client", Cur(k))
    /\ toClient' = [toClient EXCEPT ![Cur(k)] = Append(@, Unparseable)]
    /\ ignored' = ignored \cup {<<"client", Cur(k), nMutations>>}
    /\ UNCHANGED <<state, sconn, toRelay, socket, readyState, listeners, local,
                   retryTimers, reconnectTimer, nMutations, lastUpd, closedPushes>>
    /\ UNCHANGED <<db, sock, leaked, reconnects, retries, lists, subs, store,
                   sent, reachable, nOps, op, calls, routed, applied, failed>>
    /\ UNCHANGED avars

MalformedNext ==
    \/ \E k \in Clients : SyncListenersEffect(k)
    \/ \E k \in Clients : OnOpen(k)
    \/ \E k \in Clients : RetryTimer(k)
    \/ \E k \in Clients : OnMessage(k)
    \/ \E k \in Clients, p \in Paths : SyncHelper(k, p)
    \/ \E c \in Conn : RelayConnection(c)
    \/ \E c \in Conn : RelayMessage(c)
    \/ \E c \in Conn : SendUnparseable(c)
    \/ \E k \in Clients : ReceiveUnparseable(k)

MalformedSpec == Init /\ [][MalformedNext]_vars

\* ================================================== the users callback
\* The callback that the sync listeners effect registers for users, given
\* any remote value: undefined, null, an array of up to MaxLen items, some
\* of which may be falsy (""), or an object with up to two values.
MaxLen == 3
UserItems == {"", "u1", "u2", DEFAULT_ADMIN}
SeqsUpTo(S, n) == UNION {[1..m -> S] : m \in 0..n}
UserValues ==
    {Undefined, Null}
        \cup {Arr(s) : s \in SeqsUpTo(UserItems, MaxLen)}
        \cup {[kind |-> "object", items |-> s] : s \in SeqsUpTo(UserItems \ {""}, 2)}

\* The users callback runs with val: setUsers, and pushData of the default
\* admin list when the normalized value is empty.
UsersCallback(val) ==
    /\ applied' = [name |-> "users", value |-> val,
                   before |-> IF applied.name = "none" THEN InitialLocal["users"]
                              ELSE applied.users,
                   users |-> CbLocal("users", val),
                   pushes |-> CbPushes("users", val)]
    /\ UNCHANGED <<db, sock, leaked, reconnects, retries, lists, subs, store,
                   sent, reachable, nOps, op, calls, routed, ignored, failed>>
    /\ UNCHANGED <<mvars, avars>>

UsersNext == \E val \in UserValues : UsersCallback(val)

UsersSpec == Init /\ [][UsersNext]_vars

\* ============================================ the application state store
\* The state slices of one client: the callbacks that the sync listeners
\* effect registers, given any remote value, and the sync helpers that the
\* mutation handlers call.  A remote value is undefined, null, a number, an
\* array of up to MaxItems items, some of which may be falsy (""), or an
\* object.
MaxItems == 2
StoreItems == {"", "a"}
NoteValues ==
    {Undefined, Null, Scalar, Match("1")}
        \cup {Arr(s) : s \in SeqsUpTo(StoreItems, MaxItems)}
        \cup {[kind |-> "object", items |-> s] : s \in SeqsUpTo({"a"}, 1)}

\* The values the mutation handlers build: arrays of records, and for
\* liveMatch a match or null.
NewCollections == {Arr(s) : s \in SeqsUpTo({"a"}, MaxItems)}
NewLiveMatches == {Null, Match("1"), Match("2")}

\* setIsCloudConnected(true): the initialization effect after initCloud
\* returned true, or the onConnected callback of the configuration dialog.
CloudConnected ==
    /\ ~isCloudConnected
    /\ isCloudConnected' = TRUE
    /\ UNCHANGED <<slices, last>>
    /\ UNCHANGED <<mvars, tvars, ended, restarts, nvars>>

\* The callbacks as the sibling application has them: teams and tournaments
\* keep their value when the remote value is falsy.
Notify_IfData(p, v) ==
    /\ isCloudConnected
    /\ slices' = [slices EXCEPT ![p] =
                     IF p \in {"teams", "tournaments"} /\ v.kind \in {"null", "undefined"}
                     THEN @ ELSE CbLocal(p, v)]
    /\ last' = [name |-> "notify", path |-> p, value |-> v, before |-> slices[p],
                pushes |-> CbPushes(p, v)]
    /\ UNCHANGED isCloudConnected
    /\ UNCHANGED <<mvars, tvars, ended, restarts, nvars>>

\* The transport invokes the callback registered for path p with value v:
\* the setter of the slice is called with what the callback makes of v (the
\* users callback also calls pushData when the normalized value is empty).
Notify(p, v) ==
    /\ isCloudConnected
    /\ slices' = [slices EXCEPT ![p] = CbLocal(p, v)]
    /\ last' = [name |-> "notify", path |-> p, value |-> v, before |-> slices[p],
                pushes |-> CbPushes(p, v)]
    /\ UNCHANGED isCloudConnected
    /\ UNCHANGED <<mvars, tvars, ended, restarts, nvars>>

\* updateUsers, updateTeams, updateTournaments: call the setter of the slice
\* with the new value, then pushData(path, value) if isCloudConnected.
UpdateCollection(p, v) ==
    /\ p \in {"users", "teams", "tournaments"}
    /\ slices' = [slices EXCEPT ![p] = v]
    /\ last' = [name |-> "mutate", path |-> p, value |-> v,
                published |-> isCloudConnected, sliceAtPublish |-> v]
    /\ UNCHANGED isCloudConnected
    /\ UNCHANGED <<mvars, tvars, ended, restarts, nvars>>

\* updateLiveMatch: setLiveMatch is given an updater; the updater computes
\* the new value, calls pushData('liveMatch', newVal) if isCloudConnected,
\* and returns the new value, which then becomes the slice.  When pushData
\* is called the slice still holds its previous value.
UpdateLiveMatch(v) ==
    /\ slices' = [slices EXCEPT !["liveMatch"] = v]
    /\ last' = [name |-> "mutate", path |-> "liveMatch", value |-> v,
                published |-> isCloudConnected,
                sliceAtPublish |-> slices["liveMatch"]]
    /\ UNCHANGED isCloudConnected
    /\ UNCHANGED <<mvars, tvars, ended, restarts, nvars>>

StoreNext ==
    \/ CloudConnected
    \/ \E p \in SlicePaths, v \in NoteValues : Notify(p, v)
    \/ \E p \in SlicePaths, v \in NewCollections : UpdateCollection(p, v)
    \/ \E v \in NewLiveMatches : UpdateLiveMatch(v)

StoreSpec == Init /\ [][StoreNext]_vars

\* ================================================ the connectivity signal
\* The transport client together with the signal that the application keeps
\* about it.  The initialization effect runs first, with the configuration
\* it found (none or one without databaseURL, one the SDK accepts, one the
\* SDK rejects): it calls initCloud and sets the signal when initCloud
\* returned true.  Nothing else writes the signal but onConnected.
CloudInitEffect(cfg) ==
    /\ nOps = 0 /\ op.name = "none" /\ ~isCloudConnected
    /\ nOps' = nOps + 1
    /\ db' = (cfg = "valid")
    /\ isCloudConnected' = (cfg = "valid")
    /\ op' = [name |-> "initCloud", config |-> cfg, returned |-> (cfg = "valid")]
    /\ calls' = <<>>
    /\ UNCHANGED <<sock, leaked, reconnects, retries, lists, subs, store, sent,
                   reachable, routed, ignored, applied, failed>>
    /\ UNCHANGED <<mvars, storeVars, ended, restarts, nvars>>

SignalNext ==
    \/ \E cfg \in Configs : CloudInitEffect(cfg)
    \/ CloudConnected
    \/ TransportNext

SignalSpec == Init /\ [][SignalNext]_vars

\* ===================================== ending a broadcast, relay restart
\* handleEndBroadcast, and handleResetMatch for the fixture that is live:
\* with a live match in the slice, updateLiveMatch(null).  (Their publishes
\* of teams and tournaments go to paths that are not among Paths.)
\* First, the handler setting the slice without publishing.
EndBroadcast_LocalOnly(k) ==
    /\ listeners[k] # {}
    /\ local[k]["liveMatch"] # Null
    /\ local' = [local EXCEPT ![k]["liveMatch"] = Null]
    /\ ended' = TRUE
    /\ UNCHANGED <<state, sconn, toRelay, toClient, socket, readyState, listeners,
                   retryTimers, reconnectTimer, nMutations, lastUpd, closedPushes>>
    /\ UNCHANGED <<tvars, storeVars, isCloudConnected, restarts, nvars>>

\* handleEndBroadcast, handleResetMatch: updateLiveMatch(null) sets the
\* slice and calls pushData('liveMatch', null).
EndBroadcast(k) ==
    /\ listeners[k] # {}
    /\ local[k]["liveMatch"] # Null
    /\ local' = [local EXCEPT ![k]["liveMatch"] = Null]
    /\ Commit(k, PushData(k, "liveMatch", Null, ClientSt(k)))
    /\ closedPushes' = IF Disconnected(k) THEN closedPushes \cup {Null}
                       ELSE closedPushes
    /\ ended' = TRUE
    /\ UNCHANGED <<state, sconn, toClient, socket, readyState, listeners,
                   reconnectTimer, nMutations, lastUpd>>
    /\ UNCHANGED <<tvars, storeVars, isCloudConnected, restarts, nvars>>

\* The relay and its clients with connections that stay up, where the
\* mutations are those of the live match: a handler publishes a match, and
\* the admin ends the broadcast.  Clients being interchangeable, the admin
\* is client 1.
BroadcastNext ==
    \/ \E k \in Clients : SyncListenersEffect(k)
    \/ \E k \in Clients : OnOpen(k)
    \/ \E k \in Clients : RetryTimer(k)
    \/ \E k \in Clients : OnMessage(k)
    \/ \E k \in Clients : SyncHelper(k, "liveMatch")
    \/ \E c \in Conn : RelayConnection(c)
    \/ \E c \in Conn : RelayMessage(c)
    \/ EndBroadcast(1)

BroadcastSpec == Init /\ [][BroadcastNext]_vars

\* Restarts of the relay process.  A restart takes the place of the
\* connection losses of the run.
MaxRestarts == 1

\* A relay that keeps its state mapping over a restart.
RelayRestart_KeepState ==
    /\ restarts < MaxRestarts
    /\ \A c \in Conn : ~Lost(c)
    /\ restarts' = restarts + 1
    /\ lastUpd' = [p \in Paths |-> NoUpdate]
    /\ sconn' = [c \in Conn |-> IF sconn[c] = "open" THEN "closed" ELSE sconn[c]]
    /\ toRelay' = [c \in Conn |-> IF sconn[c] = "open" THEN <<>> ELSE toRelay[c]]
    /\ UNCHANGED state
    /\ UNCHANGED <<toClient, socket, readyState, listeners, local, retryTimers,
                   reconnectTimer, nMutations, closedPushes>>
    /\ UNCHANGED <<tvars, storeVars, isCloudConnected, ended, nvars>>

\* The relay process restarts: its state is the seed again, its
\* connections are gone (each client sees its socket close), and the frames
\* it had not read are never processed.
RelayRestart ==
    /\ restarts < MaxRestarts
    /\ \A c \in Conn : ~Lost(c)
    /\ restarts' = restarts + 1
    /\ state' = SeedState
    /\ lastUpd' = [p \in Paths |-> NoUpdate]
    /\ sconn' = [c \in Conn |-> IF sconn[c] = "open" THEN "closed" ELSE sconn[c]]
    /\ toRelay' = [c \in Conn |-> IF sconn[c] = "open" THEN <<>> ELSE toRelay[c]]
    /\ UNCHANGED <<toClient, socket, readyState, listeners, local, retryTimers,
                   reconnectTimer, nMutations, closedPushes>>
    /\ UNCHANGED <<tvars, storeVars, isCloudConnected, ended, nvars>>

\* The relay and its clients where the relay may restart and the mutations
\* are those of the live match.
RestartNext ==
    \/ \E k \in Clients : SyncListenersEffect(k)
    \/ \E k \in Clients : OnOpen(k)
    \/ \E k \in Clients : OnClose(k)
    \/ \E k \in Clients : ReconnectTimer(k)
    \/ \E k \in Clients : RetryTimer(k)
    \/ \E k \in Clients : OnMessage(k)
    \/ \E k \in Clients : SyncHelper(k, "liveMatch")
    \/ \E c \in Conn : RelayConnection(c)
    \/ \E c \in Conn : RelayMessage(c)
    \/ \E c \in Conn : RelayClose(c)
    \/ RelayRestart

RestartSpec == Init /\ [][RestartNext]_vars

\* ------------------------------------------------------------ C11 .. C20
\* The transport client under the scheduling of its runtime: a timer that
\* was armed fires, a connection attempt to a reachable relay completes, and
\* an attempt or a connection to an unreachable relay ends with a close.
FairTransportSpec ==
    /\ TransportSpec
    /\ WF_vars(connectSocket)
    /\ WF_vars(onopen)
    /\ WF_vars(onclose)

\* C11 (unbounded reconnection): every close of the relay socket arms
\* exactly one reconnect timer, timers are armed by nothing else, and every
\* timer that fires makes exactly one connection attempt, whatever the
\* number of attempts that failed before; and if from some moment on the
\* relay stays reachable, then from some moment on a client that has a relay
\* socket has it open.
C11_Reconnect ==
    /\ [][/\ (sock' = "CLOSED" /\ sock # "CLOSED") => reconnects' = reconnects + 1
          /\ reconnects' > reconnects =>
                Live(sock) /\ sock' = "CLOSED" /\ reconnects' = reconnects + 1
          /\ reconnects' < reconnects =>
                reconnects' = reconnects - 1 /\ sock' = "CONNECTING"]_vars
    /\ (<>[]reachable) => <>[](sock # "null" => sock = "OPEN")

\* The socket has just opened again after MaxFailed closes (a lost
\* connection and failed attempts).
C11_Witness ==
    sock = "OPEN" /\ failed = MaxFailed /\ op.name = "onopen"
        /\ sent = <<SyncRequest>> /\ reachable /\ reconnects = 0

\* C12 (single shared relay connection): the relay socket is created for
\* the first time by a syncData call, never before; and at every moment the
\* sockets of the process that are connecting or open (the one in `socket`
\* and those it replaced) and its pending reconnect timers are at most one
\* in total, whatever was subscribed, unsubscribed and published and however
\* often the connection closed.
C12_SingleSocket ==
    /\ []((IF Live(sock) THEN 1 ELSE 0) + leaked + reconnects <= 1)
    /\ [][(sock = "null" /\ sock' # "null") =>
              op'.name = "syncData" /\ sock' = "CONNECTING"]_vars

\* Both paths are subscribed, the connection was closed at least once, and
\* the process has one socket, connecting or open, and no timer.
C12_Witness ==
    /\ \A p \in Paths : \E i \in 1..Len(subs) : subs[i].path = p /\ subs[i].backend = "relay"
    /\ failed >= 1 /\ Live(sock) /\ leaked = 0 /\ reconnects = 0

\* C13 (resync request on connect and reconnect): nothing is sent on a
\* socket before it opens, and the first frame sent on a socket that opened
\* is SYNC_REQUEST: every UPDATE of pushData or of a pending retry comes
\* after it.
C13_SyncRequestFirst ==
    /\ sock \in {"null", "CONNECTING"} => sent = <<>>
    /\ sock = "OPEN" => sent # <<>>
    /\ sent # <<>> => sent[1] = SyncRequest

\* On the socket of a reconnect, the retry of a write made before the open
\* has just sent its UPDATE, behind the SYNC_REQUEST.
C13_Witness ==
    /\ failed >= 1 /\ sock = "OPEN" /\ op.name = "retry"
    /\ Len(sent) = 2 /\ sent[1] = SyncRequest
    /\ sent[2] = UpdateFrame(op.path, JSONStringify(op.data))

\* The number of entries of s that satisfy Test.
CountIn(s, Test(_)) == Len(SelectSeq(s, Test))

\* C14 (unsubscribe isolation): on either backend, the listener list of a
\* path holds a callback as many times as there are subscriptions of that
\* callback to that path whose unsubscribe function was not called: calling
\* one removes that registration from the list and leaves every other one,
\* a second registration of the same callback included, in place to be
\* invoked.
C14_UnsubscribeIsolation ==
    \A p \in Paths, cb \in Callbacks :
        CountIn(lists[p], LAMBDA c : c = cb)
            = CountIn(subs, LAMBDA h : h.path = p /\ h.cb = cb)

\* The invocations of callback cb for path p with data d by the last event.
Invocations(cb, p, d) ==
    CountIn(calls, LAMBDA x : x.cb = cb /\ x.path = p /\ x.data = d)

\* C15 (listener dispatch): after an UPDATE frame for path q with data d was
\* received, every invocation made was for q with d, and each callback was
\* invoked once per registration it has on q; after an INIT frame, every
\* invocation was for a key of its mapping with that key's value, and each
\* callback was invoked, per key present, once per registration it has on
\* that key.  Listeners of other paths are not invoked.
C15_Dispatch ==
    op.name = "onmessage" =>
        /\ op.msg.type = "UPDATE" =>
              /\ \A i \in 1..Len(calls) :
                    calls[i].path = op.msg.path /\ calls[i].data = op.msg.data
              /\ \A cb \in Callbacks :
                    Invocations(cb, op.msg.path, op.msg.data)
                        = CountIn(ListOf(op.msg.path), LAMBDA c : c = cb)
        /\ op.msg.type = "INIT" =>
              /\ \A i \in 1..Len(calls) :
                    /\ calls[i].path \in DOMAIN op.msg.data
                    /\ calls[i].data = op.msg.data[calls[i].path]
              /\ \A cb \in Callbacks : \A p \in DOMAIN op.msg.data :
                    Invocations(cb, p, op.msg.data[p])
                        = CountIn(ListOf(p), LAMBDA c : c = cb)

\* An INIT that carries users and not liveMatch was received while users
\* has two listeners and liveMatch has one: two invocations were made.
C15_Witness ==
    /\ op.name = "onmessage" /\ op.msg.type = "INIT"
    /\ DOMAIN op.msg.data = {"users"}
    /\ Len(lists["users"]) = 2 /\ Len(lists["liveMatch"]) = 1
    /\ Len(calls) = 2

\* C16 (backend chosen once): all the syncData and pushData calls of the
\* process so far were routed to one and the same backend.
C16_ChosenOnce == Cardinality(routed) <= 1

\* This step is a call of syncData or of pushData.
RoutedCall == nOps' = nOps + 1 /\ op'.name \in {"syncData", "pushData"}

C18_NeverRejects == op.name = "pushData" => op.promise = "fulfilled"

\* The relay reads, in this step, the message at the head of connection c's
\* stream, and that message is not JSON.
RelayReadsUnparseable(c) ==
    /\ sconn[c] = "open" /\ toRelay[c] # <<>> /\ Head(toRelay[c]) = Unparseable
    /\ toRelay'[c] = Tail(toRelay[c])

\* Client k reads, in this step, the message at the head of its stream, and
\* that message is not JSON.
ClientReadsUnparseable(k) ==
    /\ IsOpen(k) /\ toClient[Cur(k)] # <<>> /\ Head(toClient[Cur(k)]) = Unparseable
    /\ toClient'[Cur(k)] = Tail(toClient[Cur(k)])

\* C19 (malformed frames are ignored): when the relay reads a message that
\* is not JSON, its mapping is unchanged, nothing is sent on any connection
\* and every connection stays as it was; the frames the same connection
\* sends later are processed as on any connection (an UPDATE is stored and
\* forwarded to the other open connections, a SYNC_REQUEST is answered with
\* an INIT).  When a client reads a message that is not JSON, no callback
\* runs (no slice changes, nothing is published, no retry is armed) and its
\* socket stays open.
C19_MalformedIgnored ==
    [][/\ \A c \in Conn : RelayReadsUnparseable(c) =>
             UNCHANGED <<state, lastUpd, toClient, sconn>>
       /\ \A c \in Conn : (Garbled("relay", c) /\ RelayReadsUpdate(c)) =>
             LET f == Head(toRelay[c]) IN
             /\ state' = [state EXCEPT ![f.path] = f.data]
             /\ \A c2 \in Conn :
                   toClient'[c2] =
                       IF c2 # c /\ sconn[c2] = "open" /\ ClientEnd(c2)
                       THEN Append(toClient[c2], UpdateFrame(f.path, f.data))
                       ELSE toClient[c2]
       /\ \A c \in Conn :
             (Garbled("relay", c) /\ RelayReads(c)
                  /\ Head(toRelay[c]).type = "SYNC_REQUEST") =>
                 toClient'[c] = IF ClientEnd(c)
                                THEN Append(toClient[c], InitFrame(state))
                                ELSE toClient[c]
       /\ \A k \in Clients : ClientReadsUnparseable(k) =>
             UNCHANGED <<local, toRelay, retryTimers, socket, readyState,
                         reconnectTimer>>]_vars

\* Client 1 sent a message that is not JSON before it published, and got
\* one too; both were read; the relay then stored the liveMatch document
\* that client 1, the only subscriber, published, and client 1 still holds
\* it on its open connection.
C19_Witness ==
    /\ <<"relay", Cur(1), 0>> \in ignored /\ Garbled("client", Cur(1))
    /\ Connected(1) /\ toRelay[Cur(1)] = <<>> /\ toClient[Cur(1)] = <<>>
    /\ \A k \in Clients \ {1} : listeners[k] = {}
    /\ lastUpd["liveMatch"] # NoUpdate
    /\ state["liveMatch"] = lastUpd["liveMatch"]
    /\ local[1]["liveMatch"] = lastUpd["liveMatch"]

\* C20 (never user-less): after the users callback has applied a remote
\* value, the local users slice is not empty; it is the default admin list
\* when the value was absent, null or an empty list.
C20_NeverUserless ==
    applied.name = "users" =>
        /\ applied.users.kind = "array" /\ Len(applied.users.items) > 0
        /\ applied.value \in {Undefined, Null, Arr(<<>>)} =>
              applied.users = Arr(<<DEFAULT_ADMIN>>)

\* The slice held two users and the remote value was an empty list: the
\* slice is the default admin list, which was also published.
C20_Witness ==
    /\ applied.name = "users" /\ applied.value = Arr(<<>>)
    /\ applied.before = Arr(<<"u1", "u2">>)
    /\ applied.users = Arr(<<DEFAULT_ADMIN>>)
    /\ applied.pushes = <<[path |-> "users", data |-> Arr(<<DEFAULT_ADMIN>>)]>>

C22_Idempotent ==
    [][/\ \A k \in Clients :
            ClientReads(k) =>
                local'[k] = ApplyLocal(local'[k],
                                Notes(k, JSONParse(Head(toClient[Cur(k)]))))
       /\ \A c \in Conn :
            (RelayReadsUpdate(c)
                /\ lastUpd[Head(toRelay[c]).path] = Head(toRelay[c]).data) =>
                state' = state]_vars

\* Both clients have published the default admin list, the relay has
\* processed the two identical UPDATEs, and each client, holding that list,
\* has the other's UPDATE waiting to be applied.
C22_Witness ==
    /\ nMutations = 0
    /\ lastUpd["users"] = Arr(<<DEFAULT_ADMIN>>)
    /\ \A k \in Clients :
        /\ IsOpen(k)
        /\ local[k]["users"] = Arr(<<DEFAULT_ADMIN>>)
        /\ \E i \in 1..Len(toClient[Cur(k)]) :
              toClient[Cur(k)][i] = UpdateFrame("users", Arr(<<DEFAULT_ADMIN>>))

\* C23 (optimistic write-through): after a mutation handler has run, the
\* slice holds the new value whether or not the client is connected, and if
\* the handler called pushData, the slice already held that value when the
\* call was made and the document passed is that value.
C23_WriteThrough ==
    last.name = "mutate" =>
        /\ slices[last.path] = last.value
        /\ last.published => last.sliceAtPublish = last.value

\* C24 (connectivity signal): whenever the relay is the active transport and
\* its socket has closed and has not reopened, the signal reads not
\* connected.
C24_Signal ==
    (~db /\ failed > 0 /\ sock \in {"CLOSED", "CONNECTING"}) => ~isCloudConnected

\* Client k ends the broadcast in this step: its live match becomes null
\* without a frame being read.
EndsBroadcast(k) ==
    /\ ended'
    /\ local[k]["liveMatch"] # Null /\ local'[k]["liveMatch"] = Null
    /\ toClient' = toClient

\* The relay accepts connection c in this step, and the INIT it sends.
Accepts(c) == sconn[c] = "none" /\ sconn'[c] = "open"
SendsInit(c) ==
    /\ Len(toClient'[c]) = Len(toClient[c]) + 1
    /\ toClient'[c][Len(toClient'[c])].type = "INIT"

C26_NullAfterRestart ==
    [][\A k \in Clients :
          (restarts > 0 /\ AppliesInitAfterReconnect(k)) =>
              local'[k]["liveMatch"] = Null]_vars

\* C26 amended: after the relay has restarted, every INIT it sends before it
\* processes a liveMatch UPDATE carries null for liveMatch; a client that
\* reconnects and applies an INIT has the liveMatch that INIT carries, in
\* place of the one it held, and its socket stays open.
C26_RestartResync ==
    [][/\ \A c \in Conn :
            (restarts > 0 /\ SendsInit(c) /\ lastUpd["liveMatch"] = NoUpdate) =>
                toClient'[c][Len(toClient'[c])].data["liveMatch"] = Null
       /\ \A k \in Clients :
            (restarts > 0 /\ AppliesInitAfterReconnect(k)) =>
                /\ local'[k]["liveMatch"] = Head(toClient[Cur(k)]).data["liveMatch"]
                /\ socket'[k] = socket[k] /\ readyState'[k] = "OPEN"]_vars

\* The relay restarted after a match was published and has processed no
\* liveMatch UPDATE since; one client has reconnected, applied its INITs and
\* holds no live match, while another still holds the match.
C26_Witness ==
    /\ restarts = 1 /\ nMutations = 1
    /\ lastUpd["liveMatch"] = NoUpdate
    /\ \E k \in Clients :
        /\ socket[k] = 2 /\ IsOpen(k) /\ sconn[Cur(k)] = "open"
        /\ toClient[Cur(k)] = <<>>
        /\ local[k]["liveMatch"] = Null
        /\ \E k2 \in Clients \ {k} : local[k2]["liveMatch"] # Null


\* ------------------------------------------------ tenants of the datastore

MaxTenantOps == 5

\* initCloud assigning orgId before it validates the configuration.
TenantInitCloud_AssignFirst(k, cfg, organizationId) ==
    /\ tenantOps < MaxTenantOps
    /\ tenantOps' = tenantOps + 1
    /\ dbOf' = [dbOf EXCEPT ![k] = (cfg = "valid") \/ @]
    /\ orgIdOf' = [orgIdOf EXCEPT ![k] = OrgOf(organizationId)]
    /\ pub' = [by |-> 0, init |-> k, returned |-> (cfg = "valid")]
    /\ UNCHANGED <<refs, cloud, seen>>
    /\ UNCHANGED <<mvars, tvars, storeVars, isCloudConnected, ended, restarts, matchVars>>

\* initCloud(config, organizationId) in process k: without databaseURL, or
\* when initializeApp or getDatabase throws, it returns false; otherwise db
\* is set, orgId becomes organizationId, "default-org" when that is empty,
\* and it returns true.  The onValue listeners attached before stay on the
\* refs they were given.
TenantInitCloud(k, cfg, organizationId) ==
    /\ tenantOps < MaxTenantOps
    /\ tenantOps' = tenantOps + 1
    /\ dbOf' = [dbOf EXCEPT ![k] = (cfg = "valid") \/ @]
    /\ orgIdOf' = [orgIdOf EXCEPT ![k] = IF cfg = "valid" THEN OrgOf(organizationId) ELSE @]
    /\ pub' = [by |-> 0, init |-> k, returned |-> (cfg = "valid")]
    /\ UNCHANGED <<refs, cloud, seen>>
    /\ UNCHANGED <<mvars, tvars, storeVars, isCloudConnected, ended, restarts, matchVars>>

\* syncData(path, onData) in process k with db set: onValue is attached to
\* ref(db, `${orgId}/${path}`), built from orgId as it is at the call.
TenantSyncData(k, p) ==
    /\ dbOf[k]
    /\ tenantOps < MaxTenantOps
    /\ tenantOps' = tenantOps + 1
    /\ refs' = [refs EXCEPT ![k] = @ \cup {[ref |-> Ref(orgIdOf[k], p), path |-> p]}]
    /\ pub' = [by |-> 0]
    /\ UNCHANGED <<dbOf, orgIdOf, cloud, seen>>
    /\ UNCHANGED <<mvars, tvars, storeVars, isCloudConnected, ended, restarts, matchVars>>

\* pushData(path, data) in process k with db set: set() on
\* ref(db, `${orgId}/${path}`), built from orgId as it is at the call.
TenantPushData(k, p, d) ==
    /\ dbOf[k]
    /\ tenantOps < MaxTenantOps
    /\ tenantOps' = tenantOps + 1
    /\ cloud' = [cloud EXCEPT ![Ref(orgIdOf[k], p)] = d]
    /\ pub' = [by |-> k, org |-> orgIdOf[k], ref |-> Ref(orgIdOf[k], p),
               changed |-> (cloud[Ref(orgIdOf[k], p)] # d)]
    /\ UNCHANGED <<dbOf, orgIdOf, refs, seen>>
    /\ UNCHANGED <<mvars, tvars, storeVars, isCloudConnected, ended, restarts, matchVars>>

\* An onValue listener of process k receives the snapshot of its ref and
\* hands its value to the callback of the path.
TenantOnValue(k, r) ==
    /\ r \in refs[k]
    /\ seen[k][r.path] # cloud[r.ref]
    /\ seen' = [seen EXCEPT ![k][r.path] = cloud[r.ref]]
    /\ pub' = [by |-> 0]
    /\ UNCHANGED <<dbOf, orgIdOf, refs, cloud, tenantOps>>
    /\ UNCHANGED <<mvars, tvars, storeVars, isCloudConnected, ended, restarts, matchVars>>

AllRefs == {[ref |-> a, path |-> p] : a \in Addresses, p \in Paths}

TenantNext ==
    \/ \E k \in Procs, cfg \in Configs, o \in OrgInputs : TenantInitCloud(k, cfg, o)
    \/ \E k \in Procs, p \in Paths : TenantSyncData(k, p)
    \/ \E k \in Procs, p \in Paths, d \in {Null, Match("1")} : TenantPushData(k, p, d)
    \/ \E k \in Procs, r \in AllRefs : TenantOnValue(k, r)

TenantSpec == Init /\ [][TenantNext]_vars

\* C27 (tenant isolation on the managed datastore): every listener of a
\* process is attached under the process's own organization id, and a
\* publish by a process of one organization never changes the value at a ref
\* that a process of a different organization is subscribed to.
C27_TenantIsolation ==
    /\ \A k \in Procs : \A r \in refs[k] : r.ref = Ref(orgIdOf[k], r.path)
    /\ (pub.by # 0 /\ pub.changed) =>
          \A j \in Procs : orgIdOf[j] # pub.org => \A r \in refs[j] : r.ref # pub.ref


\* ---------------------------------------------------------- the live match

RosterSize == 7      \* players of a team
MaxSetNum == 3       \* number of the set being played
MaxPoints == 3       \* calls of handlePoint, in total
MaxRallies == 2      \* calls of handlePoint while line-ups are being changed
MaxLineupOps == 2    \* calls of handleConfirmSub and handleUpdateRotation, in total

TeamIds == {"A", "B"}
Other(t) == IF t = "A" THEN "B" ELSE "A"

\* handleAddTeam: the players of a team, numbered from 1 (a player is
\* identified with its number).
Players == [i \in 1..RosterSize |-> i]

\* The match configuration chosen in the modal.
matchConfig == [maxSets |-> 3, pointsPerSet |-> 2, tieBreakPoints |-> 2]

initialSet == [scoreA |-> 0, scoreB |-> 0, history |-> <<>>]

Elems(s) == {s[i] : i \in DOMAIN s}
Slice(s, from, to) == SubSeq(s, from + 1, IF to < Len(s) THEN to ELSE Len(s))
NotIn(players, rotation) == SelectSeq(players, LAMBDA p : p \notin Elems(rotation))
Abs(n) == IF n < 0 THEN 0 - n ELSE n

\* confirmStartMatch: the first six players of each team are on court, the
\* others on the bench; set 1 at 0-0, team A serving.
StartedMatch ==
    [status |-> "warmup", config |-> matchConfig, currentSet |-> 1,
     sets |-> <<initialSet>>,
     rotationA |-> Slice(Players, 0, 6), rotationB |-> Slice(Players, 0, 6),
     benchA |-> NotIn(Players, Slice(Players, 0, 6)),
     benchB |-> NotIn(Players, Slice(Players, 0, 6)),
     servingTeamId |-> "A", scoreA |-> 0, scoreB |-> 0,
     substitutionsA |-> 0, substitutionsB |-> 0]

confirmStartMatch ==
    /\ liveMatch' = StartedMatch
    /\ UNCHANGED <<rallies, lineupOps>>
    /\ UNCHANGED <<mvars, tvars, storeVars, isCloudConnected, ended, restarts, tenantVars>>

\* rotateTeam moving two players from the front to the back.
rotateTeam_Two(players) ==
    IF Len(players) < 2 THEN players
    ELSE Append(Append(Tail(Tail(players)), players[1]), players[2])

\* rotateTeam: the first player goes to the end of the list.
rotateTeam(players) ==
    IF players = <<>> THEN players ELSE Append(Tail(players), Head(players))

\* sets with the element at index setIndex (from 0) assigned.
SetAt(sets, setIndex, v) ==
    IF setIndex < Len(sets) THEN [sets EXCEPT ![setIndex + 1] = v]
    ELSE Append(sets, v)

WinsA(sets) == Cardinality({i \in DOMAIN sets : sets[i].scoreA > sets[i].scoreB})
WinsB(sets) == Cardinality({i \in DOMAIN sets : sets[i].scoreB > sets[i].scoreA})
RequiredWins(prev) == (prev.config.maxSets + 1) \div 2

PointTypes == {"attack", "yellow_card", "red_card"}

\* A red card giving the point to the carded team.
Scorer_CardedTeam(teamId, type) ==
    IF type = "yellow_card" THEN "none" ELSE teamId

\* The team that a call of handlePoint gives a point to: nobody for a
\* yellow card, the opponent for a red card.
Scorer(teamId, type) ==
    IF type = "yellow_card" THEN "none"
    ELSE IF type = "red_card" THEN Other(teamId) ELSE teamId

\* The updater of handlePoint.
PointUpdate(prev, teamId, type) ==
    LET s == Scorer(teamId, type)
        newScoreA == IF s = "A" THEN prev.scoreA + 1 ELSE prev.scoreA
        newScoreB == IF s = "B" THEN prev.scoreB + 1 ELSE prev.scoreB
        sideOut == s # "none" /\ prev.servingTeamId # s
        newRotationA == IF sideOut /\ s = "A" THEN rotateTeam(prev.rotationA)
                        ELSE prev.rotationA
        newRotationB == IF sideOut /\ s = "B" THEN rotateTeam(prev.rotationB)
                        ELSE prev.rotationB
        newServingTeam == IF sideOut THEN s ELSE prev.servingTeamId
        newStatus == IF prev.status \in {"warmup", "paused"} THEN "playing"
                     ELSE prev.status
        pointsToWin == IF prev.currentSet = prev.config.maxSets
                       THEN prev.config.tieBreakPoints ELSE prev.config.pointsPerSet
        setFinished == /\ (newScoreA >= pointsToWin \/ newScoreB >= pointsToWin)
                       /\ Abs(newScoreA - newScoreB) >= 2
        currentSetData == IF prev.currentSet <= Len(prev.sets)
                          THEN prev.sets[prev.currentSet] ELSE initialSet
        finishedSets == SetAt(prev.sets, prev.currentSet - 1,
                              [scoreA |-> newScoreA, scoreB |-> newScoreB,
                               history |-> Append(currentSetData.history,
                                   [teamId |-> teamId, type |-> type,
                                    scoreSnapshot |-> <<newScoreA, newScoreB>>])])
        decided == \/ WinsA(finishedSets) = RequiredWins(prev)
                   \/ WinsB(finishedSets) = RequiredWins(prev)
    IN  IF prev.status = "finished" THEN prev
        ELSE [prev EXCEPT
                !.status = IF setFinished /\ s # "none"
                           THEN (IF decided THEN "finished" ELSE "finished_set")
                           ELSE newStatus,
                !.scoreA = newScoreA, !.scoreB = newScoreB,
                !.sets = finishedSets,
                !.servingTeamId = newServingTeam,
                !.rotationA = newRotationA, !.rotationB = newRotationB]

handlePoint(teamId, type) ==
    /\ liveMatch # NoMatch
    /\ liveMatch' = PointUpdate(liveMatch, teamId, type)
    /\ rallies' = rallies + 1
    /\ UNCHANGED lineupOps
    /\ UNCHANGED <<mvars, tvars, storeVars, isCloudConnected, ended, restarts, tenantVars>>

\* Array.pop: the list without its last element.
Pop(s) == IF s = <<>> THEN s ELSE SubSeq(s, 1, Len(s) - 1)

\* The updater of handleSubtractPoint.
SubtractUpdate(prev, teamId) ==
    LET isTeamA == teamId = "A"
        newScoreA == IF isTeamA /\ prev.scoreA > 0 THEN prev.scoreA - 1 ELSE prev.scoreA
        newScoreB == IF ~(isTeamA /\ prev.scoreA > 0) /\ ~isTeamA /\ prev.scoreB > 0
                     THEN prev.scoreB - 1 ELSE prev.scoreB
        currentSetData == IF prev.currentSet <= Len(prev.sets)
                          THEN prev.sets[prev.currentSet] ELSE initialSet
    IN  IF newScoreA = prev.scoreA /\ newScoreB = prev.scoreB THEN prev
        ELSE [prev EXCEPT
                !.status = "playing",
                !.scoreA = newScoreA, !.scoreB = newScoreB,
                !.sets = SetAt(prev.sets, prev.currentSet - 1,
                               [scoreA |-> newScoreA, scoreB |-> newScoreB,
                                history |-> Pop(currentSetData.history)])]

handleSubtractPoint(teamId) ==
    /\ liveMatch # NoMatch
    /\ liveMatch' = SubtractUpdate(liveMatch, teamId)
    /\ UNCHANGED <<rallies, lineupOps>>
    /\ UNCHANGED <<mvars, tvars, storeVars, isCloudConnected, ended, restarts, tenantVars>>

SetActions == {"START", "FINISH", "REOPEN"}

\* sets padded with empty sets until it has an element at index setIndex.
RECURSIVE Padded(_, _)
Padded(sets, setIndex) ==
    IF Len(sets) <= setIndex THEN Padded(Append(sets, initialSet), setIndex) ELSE sets

\* The team that serves first in set n: A in odd sets, B in even sets.
FirstServer(n) == IF n % 2 # 0 THEN "A" ELSE "B"

\* The updater of handleSetOperation.
SetUpdate(prev, action, setIndex) ==
    LET updatedSets == Padded(prev.sets, setIndex)
        nextSetNum == prev.currentSet + 1
    IN  IF action = "START" THEN
            [prev EXCEPT
                !.status = "playing", !.currentSet = setIndex + 1,
                !.scoreA = updatedSets[setIndex + 1].scoreA,
                !.scoreB = updatedSets[setIndex + 1].scoreB,
                !.sets = updatedSets,
                !.servingTeamId = FirstServer(setIndex + 1),
                !.substitutionsA = 0, !.substitutionsB = 0]
        ELSE IF action = "FINISH" THEN
            IF \/ WinsA(updatedSets) >= RequiredWins(prev)
               \/ WinsB(updatedSets) >= RequiredWins(prev)
            THEN [prev EXCEPT !.status = "finished", !.sets = updatedSets]
            ELSE IF prev.currentSet = setIndex + 1
            THEN [prev EXCEPT
                    !.status = "playing", !.currentSet = nextSetNum,
                    !.scoreA = 0, !.scoreB = 0,
                    !.sets = IF Len(updatedSets) < nextSetNum
                             THEN Append(updatedSets, initialSet) ELSE updatedSets,
                    !.servingTeamId = FirstServer(nextSetNum),
                    !.substitutionsA = 0, !.substitutionsB = 0]
            ELSE [prev EXCEPT !.sets = updatedSets]
        ELSE
            [prev EXCEPT
                !.status = "paused", !.currentSet = setIndex + 1,
                !.scoreA = updatedSets[setIndex + 1].scoreA,
                !.scoreB = updatedSets[setIndex + 1].scoreB,
                !.sets = updatedSets]

handleSetOperation(action, setIndex) ==
    /\ liveMatch # NoMatch
    /\ liveMatch' = SetUpdate(liveMatch, action, setIndex)
    /\ UNCHANGED <<rallies, lineupOps>>
    /\ UNCHANGED <<mvars, tvars, storeVars, isCloudConnected, ended, restarts, tenantVars>>

handleStartNextSet ==
    /\ liveMatch # NoMatch
    /\ handleSetOperation("FINISH", liveMatch.currentSet - 1)

ScoreNext ==
    \/ confirmStartMatch
    \/ \E t \in TeamIds, type \in PointTypes :
          /\ rallies < MaxPoints
          /\ handlePoint(t, type)
    \/ \E t \in TeamIds : handleSubtractPoint(t)
    \/ \E a \in SetActions, i \in 0..(MaxSetNum - 1) :
          /\ liveMatch # NoMatch
          /\ SetUpdate(liveMatch, a, i).currentSet <= MaxSetNum
          /\ handleSetOperation(a, i)
    \/ /\ liveMatch # NoMatch
       /\ liveMatch.currentSet < MaxSetNum
       /\ handleStartNextSet

ScoreSpec == Init /\ [][ScoreNext]_vars

\* The updater of handleConfirmSub: the first player of the rotation with
\* number outNum and the first of the bench with number inNum change places.
SubUpdate(prev, teamId, outNum, inNum) ==
    LET isTeamA == teamId = "A"
        currentRotation == IF isTeamA THEN prev.rotationA ELSE prev.rotationB
        currentBench == IF isTeamA THEN prev.benchA ELSE prev.benchB
        outs == {i \in DOMAIN currentRotation : currentRotation[i] = outNum}
        ins == {i \in DOMAIN currentBench : currentBench[i] = inNum}
    IN  IF outs = {} \/ ins = {} THEN prev
        ELSE LET playerOutIndex == CHOOSE i \in outs : \A j \in outs : i <= j
                 playerInIndex == CHOOSE i \in ins : \A j \in ins : i <= j
                 newRotation == [currentRotation EXCEPT
                                    ![playerOutIndex] = currentBench[playerInIndex]]
                 newBench == [currentBench EXCEPT
                                    ![playerInIndex] = currentRotation[playerOutIndex]]
             IN  IF isTeamA
                 THEN [prev EXCEPT !.rotationA = newRotation, !.benchA = newBench,
                                   !.substitutionsA = @ + 1]
                 ELSE [prev EXCEPT !.rotationB = newRotation, !.benchB = newBench,
                                   !.substitutionsB = @ + 1]

\* The numbers typed into the substitution modal; 0 stands for an input
\* that parseInt does not turn into the number of a player.
NumInputs == 0..RosterSize

handleConfirmSub(teamId, outNum, inNum) ==
    /\ liveMatch # NoMatch
    /\ lineupOps < MaxLineupOps
    /\ lineupOps' = lineupOps + 1
    /\ liveMatch' = SubUpdate(liveMatch, teamId, outNum, inNum)
    /\ UNCHANGED rallies
    /\ UNCHANGED <<mvars, tvars, storeVars, isCloudConnected, ended, restarts, tenantVars>>

\* The players found for the numbers of rotationInput, in input order.
Found(rotationInput) == SelectSeq(rotationInput, LAMBDA n : n \in Elems(Players))

\* handleUpdateRotation: with six players found, they become the rotation
\* and the players of the team that are not among them the bench.
RotationUpdate(prev, teamId, rotationInput) ==
    LET newRotation == Found(rotationInput)
        newBench == NotIn(Players, newRotation)
    IN  IF Len(newRotation) # 6 THEN prev
        ELSE IF teamId = "A"
        THEN [prev EXCEPT !.rotationA = newRotation, !.benchA = newBench]
        ELSE [prev EXCEPT !.rotationB = newRotation, !.benchB = newBench]

\* initiateRotationCheck fills rotationInput with the numbers of the
\* rotation; the operator then retypes at most one of the six fields.
RotationInputs(rotation) ==
    {rotation} \cup {[rotation EXCEPT ![i] = n] : i \in DOMAIN rotation, n \in NumInputs}

handleUpdateRotation(teamId, rotationInput) ==
    /\ liveMatch # NoMatch
    /\ lineupOps < MaxLineupOps
    /\ lineupOps' = lineupOps + 1
    /\ liveMatch' = RotationUpdate(liveMatch, teamId, rotationInput)
    /\ UNCHANGED rallies
    /\ UNCHANGED <<mvars, tvars, storeVars, isCloudConnected, ended, restarts, tenantVars>>

RotationOf(m, t) == IF t = "A" THEN m.rotationA ELSE m.rotationB
BenchOf(m, t) == IF t = "A" THEN m.benchA ELSE m.benchB

LineupNext ==
    \/ confirmStartMatch
    \/ \E t \in TeamIds, type \in PointTypes :
          /\ rallies < MaxRallies
          /\ handlePoint(t, type)
    \/ \E t \in TeamIds, outNum \in NumInputs, inNum \in NumInputs :
          handleConfirmSub(t, outNum, inNum)
    \/ \E t \in TeamIds :
          /\ liveMatch # NoMatch
          /\ \E rotationInput \in RotationInputs(RotationOf(liveMatch, t)) :
                handleUpdateRotation(t, rotationInput)

LineupSpec == Init /\ [][LineupNext]_vars

NoDuplicates(s) == \A i, j \in DOMAIN s : s[i] = s[j] => i = j

\* C29 (six on court): while a match is live, rotationA and rotationB each
\* hold exactly 6 players, none of them listed twice.
C29_SixOnCourt ==
    liveMatch # NoMatch =>
        \A t \in TeamIds :
            /\ Len(RotationOf(liveMatch, t)) = 6
            /\ NoDuplicates(RotationOf(liveMatch, t))

\* Each player of team t is in exactly one of its rotation and its bench.
Partitioned(m, t) ==
    /\ Elems(RotationOf(m, t)) \cup Elems(BenchOf(m, t)) = Elems(Players)
    /\ Elems(RotationOf(m, t)) \cap Elems(BenchOf(m, t)) = {}

\* C30 (rotation and bench partition the roster): after every substitution
\* and every manual rotation update each player of the team is in exactly
\* one of the team's rotation and bench; a substitution that finds both
\* players exchanges exactly the two of them, and one that does not leaves
\* liveMatch unchanged.
C30_Partition ==
    [][/\ \A t \in TeamIds, outNum \in NumInputs, inNum \in NumInputs :
            handleConfirmSub(t, outNum, inNum) =>
                /\ Partitioned(liveMatch', t)
                /\ IF outNum \in Elems(RotationOf(liveMatch, t))
                      /\ inNum \in Elems(BenchOf(liveMatch, t))
                   THEN /\ Elems(RotationOf(liveMatch', t)) =
                             (Elems(RotationOf(liveMatch, t)) \ {outNum}) \cup {inNum}
                        /\ Elems(BenchOf(liveMatch', t)) =
                             (Elems(BenchOf(liveMatch, t)) \ {inNum}) \cup {outNum}
                   ELSE liveMatch' = liveMatch
       /\ liveMatch # NoMatch =>
            \A t \in TeamIds :
                \A rotationInput \in RotationInputs(RotationOf(liveMatch, t)) :
                    handleUpdateRotation(t, rotationInput) => Partitioned(liveMatch', t)]_vars


\* ---- C31 .. C38

\* C31 (single-writer convergence): liveMatch has one writer, the client
\* that made the one mutation of the run.  When no connection was ever
\* lost, every client is connected, nothing is in flight, no timer is
\* pending and the relay has received the writer's publish, the relay and
\* every client, the writer included, hold the published value.
C31_SingleWriter ==
    (/\ Quiescent
     /\ \A c \in Conn : ~Lost(c)
     /\ \A k \in Clients : Connected(k)
     /\ lastUpd["liveMatch"] # NoUpdate) =>
        /\ state["liveMatch"] = lastUpd["liveMatch"]
        /\ \A k \in Clients : local[k]["liveMatch"] = lastUpd["liveMatch"]

\* C32 (the users bootstrap loses no data): when the relay processes an
\* UPDATE of users that carries the default admin list, which only the
\* users callback publishes, the users document it holds is empty or is the
\* default admin list already.
C32_BootstrapKeepsUsers ==
    [][\A c \in Conn :
          (/\ RelayReadsUpdate(c)
           /\ IsUpdateFor("users", Head(toRelay[c]))
           /\ Head(toRelay[c]).data = Arr(<<DEFAULT_ADMIN>>)) =>
              state["users"] \in {Arr(<<>>), Arr(<<DEFAULT_ADMIN>>)}]_vars

\* A frame is put on a connection in this step.
FrameSent ==
    \E c \in Conn : \/ Len(toRelay'[c]) > Len(toRelay[c])
                    \/ Len(toClient'[c]) > Len(toClient[c])

\* The notifications of frame f to client k that carry an empty users value.
EmptyUsersNotes(k, f) ==
    SelectSeq(Notes(k, f), LAMBDA n : n.path = "users" /\ NormalizeArray(n.data) = Arr(<<>>))

\* C33 (quiescence): a client that applies a frame publishes only when the
\* frame carries an empty users value, and then only the default admin
\* list, at most once per such value; and in every run, the user-initiated
\* mutations and the connection losses being finitely many, frames are put
\* on the connections only finitely often.
C33_Quiescence ==
    /\ [][\A k \in Clients : ClientReads(k) =>
            LET f == JSONParse(Head(toClient[Cur(k)]))
                old == toRelay[Cur(k)]
                new == toRelay'[Cur(k)]
            IN  /\ retryTimers'[k] = retryTimers[k]
                /\ Len(new) <= Len(old) + Len(EmptyUsersNotes(k, f))
                /\ SubSeq(new, 1, Len(old)) = old
                /\ \A i \in (Len(old) + 1)..Len(new) :
                      new[i] = UpdateFrame("users", Arr(<<DEFAULT_ADMIN>>))]_vars
    /\ <>[][~FrameSent]_vars

\* Both clients are connected and have applied everything, nothing is in
\* flight, the mutations of the run are made, and the last users UPDATE the
\* relay processed is the default admin list that a users callback
\* published on receiving the empty seed.
C33_Witness ==
    /\ Quiescent
    /\ \A k \in Clients : Connected(k) /\ local[k]["users"] # Arr(<<>>)
    /\ nMutations = MaxMutations
    /\ lastUpd["users"] = Arr(<<DEFAULT_ADMIN>>)
    /\ state["users"] = Arr(<<DEFAULT_ADMIN>>)

\* -------------------------------------------------------- system reset

\* The slices after a system reset.
ResetValues == [p \in Paths |-> IF p = "users" THEN Arr(<<DEFAULT_ADMIN>>) ELSE Null]

\* handleSystemReset on a client of the relay: resetCloudData returns at
\* once because db is null, and the slices are set with their setters, not
\* with the sync helpers, so that pushData is not called.
handleSystemReset(k) ==
    /\ listeners[k] # {}
    /\ local' = [local EXCEPT ![k] = ResetValues]
    /\ UNCHANGED <<state, sconn, toRelay, toClient, socket, readyState, listeners,
                   retryTimers, reconnectTimer, nMutations, lastUpd, closedPushes>>
    /\ UNCHANGED <<tvars, avars>>

\* The relay and its clients with connections that stay up, where the admin
\* may reset the system.  Clients being interchangeable, the admin is
\* client 1.
ResetNext ==
    \/ \E k \in Clients : SyncListenersEffect(k)
    \/ \E k \in Clients : OnOpen(k)
    \/ \E k \in Clients : RetryTimer(k)
    \/ \E k \in Clients : OnMessage(k)
    \/ \E k \in Clients, p \in Paths : SyncHelper(k, p)
    \/ \E c \in Conn : RelayConnection(c)
    \/ \E c \in Conn : RelayMessage(c)
    \/ handleSystemReset(1)

ResetSpec == Init /\ [][ResetNext]_vars

\* C34 (system reset reaches shared state): when a system reset completes
\* on a connected client, the documents the relay holds are the reset
\* values, or else the reset has put UPDATE frames on the client's
\* connection that carry them to the relay.
C34_ResetShared ==
    [][\A k \in Clients :
          (handleSystemReset(k) /\ Connected(k)) =>
              \/ state' = ResetValues
              \/ \A p \in Paths :
                    \E i \in (Len(toRelay[Cur(k)]) + 1)..Len(toRelay'[Cur(k)]) :
                        toRelay'[Cur(k)][i] = UpdateFrame(p, ResetValues[p])]_vars

\* C35 (failed initialisation is side-effect free): an initCloud call with
\* a configuration that lacks databaseURL, or whose initialisation throws,
\* returns false and leaves the process's db handle, its organization id
\* and its listeners as they were.
C35_FailedInit ==
    [][\A k \in Procs, cfg \in Configs, o \in OrgInputs :
          (TenantInitCloud(k, cfg, o) /\ cfg # "valid") =>
              /\ pub'.returned = FALSE
              /\ dbOf' = dbOf /\ orgIdOf' = orgIdOf
              /\ refs' = refs /\ cloud' = cloud]_vars

\* An initCloud call has just failed in a process that was initialised
\* before for organization x and has listeners.
C35_Witness ==
    /\ pub.by = 0 /\ "init" \in DOMAIN pub
    /\ ~pub.returned
    /\ dbOf[pub.init] /\ orgIdOf[pub.init] = "x" /\ refs[pub.init] # {}

\* new is old shifted by one position, in one direction or the other.
ShiftedByOne(old, new) ==
    /\ Len(new) = Len(old)
    /\ \/ \A i \in DOMAIN old : new[i] = old[(i % Len(old)) + 1]
       \/ \A i \in DOMAIN old : old[i] = new[(i % Len(old)) + 1]
    /\ \A p \in Elems(old) :
          Cardinality({i \in DOMAIN old : old[i] = p}) =
          Cardinality({i \in DOMAIN new : new[i] = p})

\* What the side-out rule asks of a step that gives team t a point.
SideOutRule(t) ==
    IF liveMatch.servingTeamId # t
    THEN /\ liveMatch'.servingTeamId = t
         /\ ShiftedByOne(RotationOf(liveMatch, t), RotationOf(liveMatch', t))
         /\ RotationOf(liveMatch', Other(t)) = RotationOf(liveMatch, Other(t))
    ELSE /\ liveMatch'.servingTeamId = liveMatch.servingTeamId
         /\ liveMatch'.rotationA = liveMatch.rotationA
         /\ liveMatch'.rotationB = liveMatch.rotationB

\* C36 (side-out rule): when handlePoint gives a point to the team that is
\* not serving, that team becomes the serving team and its rotation is
\* shifted by one position with the same six players, the other rotation
\* staying as it is; when the point goes to the serving team, the server
\* and both rotations stay as they are.
C36_SideOut ==
    [][\A t \in TeamIds, type \in PointTypes :
          handlePoint(t, type) =>
              /\ liveMatch'.scoreA = liveMatch.scoreA + 1 => SideOutRule("A")
              /\ liveMatch'.scoreB = liveMatch.scoreB + 1 => SideOutRule("B")]_vars

\* Team B, receiving, has won the first point of the match: it serves, its
\* rotation is shifted by one position and team A's is as it was.
C36_Witness ==
    /\ liveMatch # NoMatch
    /\ liveMatch.currentSet = 1 /\ liveMatch.scoreA = 0 /\ liveMatch.scoreB = 1
    /\ liveMatch.sets[1].scoreA = 0 /\ liveMatch.sets[1].scoreB = 1
    /\ liveMatch.servingTeamId = "B"
    /\ liveMatch.rotationB = <<2, 3, 4, 5, 6, 1>>
    /\ liveMatch.rotationA = <<1, 2, 3, 4, 5, 6>>

ScoreOf(m, t) == IF t = "A" THEN m.scoreA ELSE m.scoreB

\* The history entry that handlePoint appends for a card shown to team t
\* with the board at a-b.
CardEntry(t, type, a, b) == [teamId |-> t, type |-> type, scoreSnapshot |-> <<a, b>>]

SetWon(m, i, t) ==
    LET limit == IF i = m.config.maxSets THEN m.config.tieBreakPoints
                 ELSE m.config.pointsPerSet
        own == IF t = "A" THEN m.sets[i].scoreA ELSE m.sets[i].scoreB
        opp == IF t = "A" THEN m.sets[i].scoreB ELSE m.sets[i].scoreA
    IN  own >= limit /\ own - opp >= 2

\* C38 (match completion): the status of the live match is 'finished' only
\* when one team has won ceil(maxSets / 2) sets, a set counting as won only
\* when the winner reached its point limit with a lead of at least 2.
C38_Completion ==
    (liveMatch # NoMatch /\ liveMatch.status = "finished") =>
        \E t \in TeamIds :
            Cardinality({i \in DOMAIN liveMatch.sets : SetWon(liveMatch, i, t)})
                >= RequiredWins(liveMatch)

====
